---- MODULE Spec2Model ----
(***************************************************************************)
(* Verification model of the podcast feed ingester: the RSS mapper         *)
(* (server/utils/feed-parser.ts) and the feed cache that fronts it         *)
(* (server/utils/feed-cache.ts).                                           *)
(***************************************************************************)
EXTENDS Integers, Sequences, FiniteSets, TLC

(***************************************************************************)
(* JavaScript values as the XML parser hands them to the mapper.  A value  *)
(* is a record [t, s, n, o]: t is the type tag, s the characters of a      *)
(* string, n the number, o the fields of an object (one record) or the     *)
(* elements of an array.                                                   *)
(***************************************************************************)
Undef == [t |-> "undef", s |-> <<>>, n |-> 0, o |-> <<>>]
NaN == [t |-> "nan", s |-> <<>>, n |-> 0, o |-> <<>>]
Str(cs) == [t |-> "str", s |-> cs, n |-> 0, o |-> <<>>]
Num(k) == [t |-> "num", s |-> <<>>, n |-> k, o |-> <<>>]
Bool(b) == [t |-> "bool", s |-> <<>>, n |-> IF b THEN 1 ELSE 0, o |-> <<>>]
Obj(r) == [t |-> "obj", s |-> <<>>, n |-> 0, o |-> <<r>>]
Arr(vs) == [t |-> "arr", s |-> <<>>, n |-> 0, o |-> vs]

\* Boolean coercion: undefined, "", 0, NaN and false are falsy.
Truthy(v) ==
  CASE v.t = "undef" -> FALSE
    [] v.t = "nan" -> FALSE
    [] v.t = "str" -> v.s # <<>>
    [] v.t = "num" -> v.n # 0
    [] v.t = "bool" -> v.n = 1
    [] OTHER -> TRUE

\* a || b
Or(a, b) == IF Truthy(a) THEN a ELSE b

\* a ?? b
Nullish(a, b) == IF a.t = "undef" THEN b ELSE a

\* v[k] / v?.[k]: a key of an object, undefined on a primitive or on undefined
Get(v, k) ==
  IF v.t = "obj" /\ k \in DOMAIN v.o[1] THEN v.o[1][k] ELSE Undef

\* Array.isArray(v)
IsArray(v) == v.t = "arr"

Digit == <<"0", "1", "2", "3", "4", "5", "6", "7", "8", "9">>

RECURSIVE NumToStr(_)
\* String(n) for a non-negative integer
NumToStr(k) ==
  IF k < 10 THEN <<Digit[k + 1]>>
  ELSE NumToStr(k \div 10) \o <<Digit[(k % 10) + 1]>>

\* String(v)
String(v) ==
  CASE v.t = "str" -> v.s
    [] v.t = "num" -> IF v.n < 0 THEN <<"-">> \o NumToStr(0 - v.n) ELSE NumToStr(v.n)
    [] v.t = "bool" -> IF v.n = 1 THEN <<"t", "r", "u", "e">> ELSE <<"f", "a", "l", "s", "e">>
    [] v.t = "undef" -> <<"u", "n", "d", "e", "f", "i", "n", "e", "d">>
    [] v.t = "nan" -> <<"N", "a", "N">>
    [] OTHER -> <<"[", "o", "b", "j", "e", "c", "t", " ", "O", "b", "j", "e", "c", "t", "]">>

DigitVal(c) == CHOOSE i \in 0..9 : Digit[i + 1] = c
IsDigit(c) == \E i \in 1..10 : Digit[i] = c
IsSpace(c) == c \in {" ", "\t", "\n"}

RECURSIVE SkipSpace(_)
SkipSpace(cs) == IF cs # <<>> /\ IsSpace(Head(cs)) THEN SkipSpace(Tail(cs)) ELSE cs

RECURSIVE DigitsValue(_, _)
\* value of the leading run of digits of cs, acc the value read so far
DigitsValue(cs, acc) ==
  IF cs # <<>> /\ IsDigit(Head(cs))
  THEN DigitsValue(Tail(cs), acc * 10 + DigitVal(Head(cs)))
  ELSE acc

\* parseInt(v, 10): the string form of v, leading white space skipped, an
\* optional sign, then the leading digits; NaN when there is no digit
ParseInt(v) ==
  LET cs == SkipSpace(String(v))
      neg == cs # <<>> /\ Head(cs) = "-"
      body == IF cs # <<>> /\ Head(cs) \in {"-", "+"} THEN Tail(cs) ELSE cs
  IN IF body = <<>> \/ ~IsDigit(Head(body)) THEN NaN
     ELSE Num(IF neg THEN 0 - DigitsValue(body, 0) ELSE DigitsValue(body, 0))

(***************************************************************************)
(* Strings are sequences of characters.                                    *)
(***************************************************************************)
UntitledPodcast == <<"U", "n", "t", "i", "t", "l", "e", "d", " ", "P", "o", "d", "c", "a", "s", "t">>
UntitledEpisode == <<"U", "n", "t", "i", "t", "l", "e", "d", " ", "E", "p", "i", "s", "o", "d", "e">>
Unknown == <<"U", "n", "k", "n", "o", "w", "n">>
Serial == <<"s", "e", "r", "i", "a", "l">>
Trailer == <<"t", "r", "a", "i", "l", "e", "r">>
Bonus == <<"b", "o", "n", "u", "s">>
TextPlain == <<"t", "e", "x", "t", "/", "p", "l", "a", "i", "n">>
TextVtt == <<"t", "e", "x", "t", "/", "v", "t", "t">>
SubRip == <<"a", "p", "p", "l", "i", "c", "a", "t", "i", "o", "n", "/", "x", "-", "s", "u", "b", "r", "i", "p">>
JsonChapters == <<"a", "p", "p", "l", "i", "c", "a", "t", "i", "o", "n", "/", "j", "s", "o", "n", "+", "c", "h", "a", "p", "t", "e", "r", "s">>
AudioMpeg == <<"a", "u", "d", "i", "o", "/", "m", "p", "e", "g">>
LitTrue == <<"t", "r", "u", "e">>
LitYes == <<"y", "e", "s">>
LitOne == <<"1">>
LitZero == <<"0">>
LitAnd == <<"-", "a", "n", "d", "-">>

UpperChars == <<"A", "B", "C", "D", "E", "F", "G", "H", "I", "J", "K", "L", "M", "N", "O", "P", "Q", "R", "S", "T", "U", "V", "W", "X", "Y", "Z">>
LowerChars == <<"a", "b", "c", "d", "e", "f", "g", "h", "i", "j", "k", "l", "m", "n", "o", "p", "q", "r", "s", "t", "u", "v", "w", "x", "y", "z">>

LowerChar(c) ==
  IF \E i \in 1..26 : UpperChars[i] = c
  THEN LowerChars[CHOOSE i \in 1..26 : UpperChars[i] = c]
  ELSE c

\* s.toLowerCase()
ToLowerCase(cs) == [i \in 1..Len(cs) |-> LowerChar(cs[i])]

RECURSIVE SplitAcc(_, _, _)
SplitAcc(cs, sep, cur) ==
  IF cs = <<>> THEN <<cur>>
  ELSE IF Head(cs) = sep THEN <<cur>> \o SplitAcc(Tail(cs), sep, <<>>)
  ELSE SplitAcc(Tail(cs), sep, Append(cur, Head(cs)))

\* s.split(sep) for a one-character separator
Split(cs, sep) == SplitAcc(cs, sep, <<>>)

RECURSIVE DropTrailingSpace(_)
DropTrailingSpace(cs) ==
  IF cs # <<>> /\ IsSpace(cs[Len(cs)]) THEN DropTrailingSpace(SubSeq(cs, 1, Len(cs) - 1)) ELSE cs

\* s.trim()
Trim(cs) == DropTrailingSpace(SkipSpace(cs))

(***************************************************************************)
(* server/utils/slug.ts                                                    *)
(***************************************************************************)
MaxSlugLength == 100

IsSlugChar(c) == IsDigit(c) \/ (\E i \in 1..26 : LowerChars[i] = c)

\* every & becomes "-and-": character i of cs lands at position
\* i + 4 * (the number of & before it)
ReplaceAmp(cs) ==
  LET amps == [i \in 1..(Len(cs) + 1) |-> Cardinality({ k \in 1..(i - 1) : cs[k] = "&" })]
      start == [i \in 1..Len(cs) |-> i + 4 * amps[i]]
      width == [i \in 1..Len(cs) |-> IF cs[i] = "&" THEN Len(LitAnd) ELSE 1]
      src == [j \in 1..(Len(cs) + 4 * amps[Len(cs) + 1]) |->
                CHOOSE i \in 1..Len(cs) : start[i] <= j /\ j < start[i] + width[i]]
  IN [j \in DOMAIN src |->
        IF cs[src[j]] = "&" THEN LitAnd[j - start[src[j]] + 1] ELSE cs[src[j]]]

RemoveApostrophes(cs) == SelectSeq(cs, LAMBDA c : c # "'")

\* every run of characters outside [a-z0-9] becomes one hyphen; prev says
\* whether the character before cs was already turned into a hyphen
Hyphenate(cs, prev) ==
  LET marked == [i \in 1..Len(cs) |-> IF IsSlugChar(cs[i]) THEN cs[i] ELSE "-"]
      kept == SelectSeq([i \in 1..Len(cs) |-> i],
                LAMBDA i : \/ marked[i] # "-"
                           \/ IF i = 1 THEN ~prev ELSE marked[i - 1] # "-")
  IN [k \in 1..Len(kept) |-> marked[kept[k]]]

RECURSIVE StripLeadingHyphens(_)
StripLeadingHyphens(cs) ==
  IF cs # <<>> /\ Head(cs) = "-" THEN StripLeadingHyphens(Tail(cs)) ELSE cs

RECURSIVE StripTrailingHyphens(_)
StripTrailingHyphens(cs) ==
  IF cs # <<>> /\ cs[Len(cs)] = "-" THEN StripTrailingHyphens(SubSeq(cs, 1, Len(cs) - 1)) ELSE cs

LastHyphen(cs) ==
  IF \E i \in 1..Len(cs) : cs[i] = "-"
  THEN CHOOSE i \in 1..Len(cs) : cs[i] = "-" /\ \A j \in (i + 1)..Len(cs) : cs[j] # "-"
  ELSE 0

\* the cut at MaxSlugLength characters, moved back to the last hyphen
TruncateSlug(cs) ==
  IF Len(cs) <= MaxSlugLength THEN cs
  ELSE LET cut == SubSeq(cs, 1, MaxSlugLength)
           h == LastHyphen(cut)
       IN IF h > 1 THEN SubSeq(cut, 1, h - 1) ELSE cut

generateSlug(title, episodeNumber) ==
  LET text == IF Truthy(title) THEN String(title) ELSE <<>>
      base == StripTrailingHyphens(StripLeadingHyphens(
                Hyphenate(RemoveApostrophes(ReplaceAmp(ToLowerCase(text))), FALSE)))
      numbered == IF episodeNumber.t = "undef" THEN base
                  ELSE String(episodeNumber) \o <<"-">> \o base
  IN IF text = <<>> THEN <<>> ELSE TruncateSlug(numbered)

(***************************************************************************)
(* server/utils/feed-parser.ts                                             *)
(***************************************************************************)
\* a * k + b on numbers, NaN when either operand is NaN
MulAdd(a, k, b) ==
  IF a.t = "nan" \/ b.t = "nan" THEN NaN ELSE Num(a.n * k + b.n)

parseDuration(duration) ==
  IF ~Truthy(duration) THEN Num(0)
  ELSE IF duration.t = "num" THEN duration
  ELSE LET strs == Split(String(duration), ":")
           parts == [i \in 1..Len(strs) |-> ParseInt(Str(strs[i]))]
       IN CASE Len(parts) = 3 -> MulAdd(MulAdd(parts[1], 60, parts[2]), 60, parts[3])
            [] Len(parts) = 2 -> MulAdd(parts[1], 60, parts[2])
            [] Len(parts) = 1 -> parts[1]
            [] OTHER -> Num(0)

parseBoolean(value) ==
  IF value.t = "bool" THEN value.n = 1
  ELSE IF ~Truthy(value) THEN FALSE
  ELSE ToLowerCase(String(value)) \in {LitTrue, LitYes, LitOne}

\* the elements of v when v is an array, otherwise v alone
AsList(v) == IF IsArray(v) THEN v.o ELSE <<v>>

RECURSIVE CollectCategories(_)
CollectCategories(cats) ==
  IF cats = <<>> THEN <<>>
  ELSE LET cat == Head(cats)
           rest == CollectCategories(Tail(cats))
       IN IF cat.t = "str" THEN <<cat>> \o rest
          ELSE IF Truthy(Get(cat, "@_text")) THEN <<Get(cat, "@_text")>> \o rest
          ELSE IF Truthy(Get(cat, "text")) THEN <<Get(cat, "text")>> \o rest
          ELSE rest

parseCategories(categories) ==
  IF ~Truthy(categories) THEN <<>> ELSE CollectCategories(AsList(categories))

\* one podcast:transcript entry as parsePodcast2Tags reads it
TranscriptOf(t) ==
  [url |-> Or(Or(Get(t, "@_url"), Get(t, "url")), Str(<<>>)),
   type |-> Or(Or(Get(t, "@_type"), Get(t, "type")), Str(TextPlain)),
   language |-> Or(Get(t, "@_language"), Get(t, "language"))]

\* transcripts.find(t => t.type === wanted), a one-element or empty sequence
FindType(transcripts, wanted) ==
  LET hits == SelectSeq(transcripts, LAMBDA t : t.type = Str(wanted))
  IN IF hits = <<>> THEN <<>> ELSE <<hits[1]>>

\* PreferredTranscript that takes the first entry whatever its type
PreferredTranscriptFirst(transcripts) == transcripts[1]

\* VTT, then SRT, then plain text, then the first entry
PreferredTranscript(transcripts) ==
  LET order == FindType(transcripts, TextVtt) \o FindType(transcripts, SubRip)
                 \o FindType(transcripts, TextPlain) \o transcripts
  IN order[1]

PersonOf(p) ==
  [name |-> Or(Or(Or(Get(p, "#text"), Get(p, "text")), Get(p, "@_name")), Str(<<>>)),
   role |-> Or(Get(p, "@_role"), Get(p, "role")),
   group |-> Or(Get(p, "@_group"), Get(p, "group")),
   img |-> Or(Get(p, "@_img"), Get(p, "img")),
   href |-> Or(Get(p, "@_href"), Get(p, "href"))]

FundingOf(f) ==
  [url |-> Or(Or(Get(f, "@_url"), Get(f, "url")), Str(<<>>)),
   text |-> Or(Or(Get(f, "#text"), Get(f, "text")), Str(<<>>))]

\* TagsOrAbsent that returns the tags object even when nothing was set
TagsAlways(tags) == <<tags>>

\* return hasAnyTag ? tags : undefined
TagsOrAbsent(tags) ==
  IF \E f \in DOMAIN tags : tags[f] # <<>> THEN <<tags>> ELSE <<>>

\* The Podcast2Tags of a channel or item; a field that was not set is <<>>,
\* a set field is a one-element sequence; the result is <<>> when hasAnyTag
\* stayed false.
parsePodcast2Tags(item) ==
  LET rawT == Get(item, "podcast:transcript")
      transcripts == [i \in 1..Len(AsList(rawT)) |-> TranscriptOf(AsList(rawT)[i])]
      preferred == PreferredTranscript(transcripts)
      transcript == IF Truthy(rawT) /\ transcripts # <<>> /\ Truthy(preferred.url)
                    THEN <<preferred>> ELSE <<>>
      rawC == Get(item, "podcast:chapters")
      chapters == IF Truthy(rawC)
                  THEN <<[url |-> Or(Or(Get(rawC, "@_url"), Get(rawC, "url")), Str(<<>>)),
                          type |-> Or(Or(Get(rawC, "@_type"), Get(rawC, "type")), Str(JsonChapters))]>>
                  ELSE <<>>
      rawP == Get(item, "podcast:person")
      persons == IF Truthy(rawP)
                 THEN <<[i \in 1..Len(AsList(rawP)) |-> PersonOf(AsList(rawP)[i])]>>
                 ELSE <<>>
      rawF == Get(item, "podcast:funding")
      funding == IF Truthy(rawF)
                 THEN <<[i \in 1..Len(AsList(rawF)) |-> FundingOf(AsList(rawF)[i])]>>
                 ELSE <<>>
      rawG == Get(item, "podcast:guid")
      guid == IF Truthy(rawG) THEN <<Or(Get(rawG, "#text"), rawG)>> ELSE <<>>
  IN TagsOrAbsent([transcript |-> transcript, chapters |-> chapters, persons |-> persons,
                   funding |-> funding, guid |-> guid])

\* A thrown Error, known by the phrases its message contains.
Thrown(phrases) == [ok |-> FALSE, phrases |-> phrases]

\* v?.toLowerCase(): undefined stays undefined, a string is lowered; any other
\* value has no such method and the call throws a TypeError.
LowerThrows(v) == v.t \notin {"undef", "str"}

\* v.split(','): only a string has the method.
SplitThrows(v) == Truthy(v) /\ v.t # "str"

\* itunes:keywords split on commas, trimmed, empty tokens dropped
KeywordsOf(v) ==
  IF ~Truthy(v) THEN <<>>
  ELSE LET toks == Split(v.s, ",")
           trimmed == [i \in 1..Len(toks) |-> Trim(toks[i])]
       IN <<SelectSeq(trimmed, LAMBDA k : k # <<>>)>>

EpisodeTypeOf(v) ==
  LET itunesType == IF v.t = "str" THEN ToLowerCase(v.s) ELSE <<>>
  IN IF v.t = "str" /\ itunesType = Trailer THEN "trailer"
     ELSE IF v.t = "str" /\ itunesType = Bonus THEN "bonus"
     ELSE "full"

\* enclosure['@_url'] || enclosure.url
AudioUrlOf(item) ==
  LET enclosure == Get(item, "enclosure")
  IN Or(Get(enclosure, "@_url"), Get(enclosure, "url"))

\* ItemSkipped without the check of the enclosure's URL
ItemSkippedNoUrlCheck(item) ==
  \/ ~Truthy(item)
  \/ ~Truthy(Get(item, "enclosure"))

\* the loop body's three early `continue`s
ItemSkipped(item) ==
  \/ ~Truthy(item)
  \/ ~Truthy(Get(item, "enclosure"))
  \/ ~Truthy(AudioUrlOf(item))

ItemThrows(item) ==
  \/ LowerThrows(Get(item, "itunes:episodeType"))
  \/ SplitThrows(Get(item, "itunes:keywords"))

\* GuidOf without the fallback to the enclosure URL
GuidOfNoFallback(item, audioUrl) ==
  Or(Get(Get(item, "guid"), "#text"), Get(item, "guid"))

\* item.guid?.['#text'] || item.guid || audioUrl
GuidOf(item, audioUrl) ==
  Or(Or(Get(Get(item, "guid"), "#text"), Get(item, "guid")), audioUrl)

\* the Episode built from an item that is neither skipped nor throws
EpisodeOf(item, channel, artwork, now) ==
  LET enclosure == Get(item, "enclosure")
      audioUrl == AudioUrlOf(item)
      title == Str(String(Or(Get(item, "title"), Str(UntitledEpisode))))
      episodeNumber == IF Truthy(Get(item, "itunes:episode"))
                       THEN ParseInt(Get(item, "itunes:episode")) ELSE Undef
  IN [guid |-> GuidOf(item, audioUrl),
      title |-> title,
      slug |-> Str(generateSlug(title, episodeNumber)),
      description |-> Str(String(Or(Or(Get(item, "itunes:summary"), Get(item, "description")), Str(<<>>)))),
      htmlContent |-> Get(item, "content:encoded"),
      audioUrl |-> audioUrl,
      audioType |-> Or(Or(Get(enclosure, "@_type"), Get(enclosure, "type")), Str(AudioMpeg)),
      audioLength |-> ParseInt(Or(Or(Get(enclosure, "@_length"), Get(enclosure, "length")), Str(LitZero))),
      pubDate |-> Or(Get(item, "pubDate"), now),
      duration |-> parseDuration(Get(item, "itunes:duration")),
      artwork |-> Or(Get(Get(item, "itunes:image"), "@_href"), artwork),
      episodeNumber |-> episodeNumber,
      seasonNumber |-> IF Truthy(Get(item, "itunes:season"))
                       THEN ParseInt(Get(item, "itunes:season")) ELSE Undef,
      episodeType |-> EpisodeTypeOf(Get(item, "itunes:episodeType")),
      explicit |-> parseBoolean(Nullish(Get(item, "itunes:explicit"), Get(channel, "itunes:explicit"))),
      keywords |-> KeywordsOf(Get(item, "itunes:keywords")),
      link |-> Get(item, "link"),
      podcast2 |-> parsePodcast2Tags(item)]

\* ItemsOf that takes channel.item for a list only when it is an array
ItemsOfArrayOnly(channel) ==
  IF IsArray(Get(channel, "item")) THEN Get(channel, "item").o ELSE <<>>

\* channel.item as the list the loop runs over
ItemsOf(channel) == AsList(Get(channel, "item"))

RECURSIVE MapItems(_, _, _, _)
\* the for loop over items: the episodes pushed, in order, or the error of the
\* first item that throws
MapItems(items, channel, artwork, now) ==
  IF items = <<>> THEN [ok |-> TRUE, episodes |-> <<>>]
  ELSE LET item == Head(items)
           rest == MapItems(Tail(items), channel, artwork, now)
       IN IF ItemSkipped(item) THEN rest
          ELSE IF ItemThrows(item) THEN Thrown({"is not a function"})
          ELSE IF ~rest.ok THEN rest
          ELSE [ok |-> TRUE,
                episodes |-> <<EpisodeOf(item, channel, artwork, now)>> \o rest.episodes]

PodcastOf(feedUrl, channel) ==
  [title |-> Str(String(Or(Get(channel, "title"), Str(UntitledPodcast)))),
   author |-> Str(String(Or(Or(Get(channel, "itunes:author"), Get(channel, "author")), Str(Unknown)))),
   description |-> Str(String(Or(Get(channel, "description"), Str(<<>>)))),
   artwork |-> Or(Or(Get(Get(channel, "itunes:image"), "@_href"), Get(Get(channel, "image"), "url")), Str(<<>>)),
   categories |-> parseCategories(Get(channel, "itunes:category")),
   feedUrl |-> feedUrl,
   type |-> IF Get(channel, "itunes:type") = Str(Serial) THEN "serial" ELSE "episodic",
   explicit |-> parseBoolean(Get(channel, "itunes:explicit")),
   link |-> Get(channel, "link"),
   language |-> Get(channel, "language"),
   copyright |-> Get(channel, "copyright"),
   podcast2 |-> parsePodcast2Tags(channel)]

\* parsePodcastFeed without the check for the missing channel
parsePodcastFeedNoChannelCheck(feedUrl, response, now) ==
  IF response.net = "error"
    THEN Thrown({"Failed to fetch RSS feed from"} \cup response.cause)
  ELSE IF response.status \notin 200..299
    THEN Thrown({"Failed to fetch RSS feed from", "Failed to fetch feed"})
  ELSE IF ~response.wellFormed THEN Thrown({"Failed to parse RSS XML"})
  ELSE LET channel == Get(Get(response.rss, "rss"), "channel")
           podcast == PodcastOf(feedUrl, channel)
           mapped == MapItems(ItemsOf(channel), channel, podcast.artwork, now)
       IN IF ~mapped.ok THEN mapped
          ELSE [ok |-> TRUE, podcast |-> podcast, episodes |-> mapped.episodes]

\* parsePodcastFeed(feedUrl) against an upstream that answers `response`:
\* response.net is "ok" or "error" (fetch rejected, response.cause the phrases
\* of the rejection's text); response.status is the HTTP status;
\* response.wellFormed says whether the XML parser accepts the body, and
\* response.rss is what it returns.
parsePodcastFeed(feedUrl, response, now) ==
  IF response.net = "error"
    THEN Thrown({"Failed to fetch RSS feed from"} \cup response.cause)
  ELSE IF response.status \notin 200..299
    THEN Thrown({"Failed to fetch RSS feed from", "Failed to fetch feed"})
  ELSE IF ~response.wellFormed THEN Thrown({"Failed to parse RSS XML"})
  ELSE LET channel == Get(Get(response.rss, "rss"), "channel")
           podcast == PodcastOf(feedUrl, channel)
           mapped == MapItems(ItemsOf(channel), channel, podcast.artwork, now)
       IN IF ~Truthy(channel) THEN Thrown({"Invalid RSS feed: missing channel element"})
          ELSE IF ~mapped.ok THEN mapped
          ELSE [ok |-> TRUE, podcast |-> podcast, episodes |-> mapped.episodes]

(***************************************************************************)
(* State.  The mapper run: the upstream answer, the result of              *)
(* parsePodcastFeed on it, and the result on the same document with its    *)
(* single item wrapped in a one-element array.                             *)
(***************************************************************************)
VARIABLES response, parseResult, wrappedResult, clock

(***************************************************************************)
(* A call of one of the pure utilities: arg is the argument it is called   *)
(* with, ret is <<>> before the call and the returned value afterwards.    *)
(***************************************************************************)
VARIABLES arg, ret

(***************************************************************************)
(* State of the feed cache.  cache[u] is <<>> or the one entry of key u;   *)
(* inflight[u] is 0 or the number of the fetch that callers of u share;    *)
(* fetches is every upstream fetch started so far, fetches[i].settled      *)
(* being <<>> while it is in flight and its outcome afterwards;            *)
(* requests[c] is the request that task c serves or served last: its      *)
(* position, its url, the fetch it awaits and what it was answered.        *)
(***************************************************************************)
VARIABLES cache, inflight, fetches, requests

(***************************************************************************)
(* State of the browser side.  state is the audio player's global state,   *)
(* howl is <<>> (null) or the one Howl instance, progressStore is the      *)
(* listening progress kept in localStorage, per episode guid <<>> or the   *)
(* saved record, and query is the route's query (t is <<>> when absent).   *)
(***************************************************************************)
VARIABLES state, howl, progressStore, query

parseVars == <<response, parseResult, wrappedResult, arg, ret>>
cacheVars == <<cache, inflight, fetches, requests>>
playerVars == <<state, howl, progressStore, query>>
vars == <<response, parseResult, wrappedResult, clock, arg, ret,
          cache, inflight, fetches, requests,
          state, howl, progressStore, query>>

\* new Date().toISOString() at time t
IsoOf(t) == Str(<<"T">> \o NumToStr(t))

FeedUrlA == Str(<<"h", "t", "t", "p", ":", "/", "/", "a">>)
FeedUrlB == Str(<<"h", "t", "t", "p", ":", "/", "/", "b">>)

Urls == {FeedUrlA, FeedUrlB}

NoUrl == Str(<<>>)

\* ---- bounds ----
NumTasks == 2
MaxFetches == 2
MaxTicks == 1

Tasks == 1..NumTasks

\* volumes are counted in tenths: 8 is 0.8 and 10 is 1
DefaultVolume == 8
FullVolume == 10

\* the guids of the episodes the player is given
EpisodeGuids == {"g1", "g2"}

\* the player state as constructed, no Howl, nothing saved, no ?t=
PlayerStart ==
  /\ state = [currentEpisode |-> <<>>, isPlaying |-> FALSE, currentTime |-> 0, duration |-> 0,
              volume |-> Num(DefaultVolume), playbackRate |-> 1, isLoading |-> FALSE,
              isMuted |-> FALSE, volumeBeforeMute |-> Num(DefaultVolume)]
  /\ howl = <<>>
  /\ progressStore = [g \in EpisodeGuids |-> <<>>]
  /\ query = [t |-> <<>>]

\* no utility has been called
NoCall == arg = Undef /\ ret = <<>>

\* the cache before any request
CacheStart ==
  /\ cache = [u \in Urls |-> <<>>]
  /\ inflight = [u \in Urls |-> 0]
  /\ fetches = <<>>
  /\ requests = [c \in Tasks |-> [pc |-> "idle", url |-> NoUrl, awaiting |-> 0, result |-> <<>>]]

\* ---- bounded inputs of the mapper ----
Enclosures ==
  { Undef,
    Str(<<>>),
    Obj([type |-> Str(AudioMpeg)]),
    Obj("@_url" :> Str(<<>>) @@ "@_length" :> Num(1000)),
    Obj("@_url" :> Num(0)),
    Obj("@_url" :> Str(<<"u", "1">>) @@ "@_type" :> Str(AudioMpeg) @@ "@_length" :> Num(1000)),
    Obj("@_url" :> Str(<<"u", "2">>)),
    Obj([url |-> Str(<<"u", "3">>), length |-> Str(<<"5", "0">>)]) }

Titles == { Undef, Str(<<"E", "p", " ", "1">>), Num(42) }

Guids == { Undef, Str(<<"g", "1">>), Obj("#text" :> Str(<<"g", "2">>) @@ "@_isPermaLink" :> Bool(FALSE)) }

EpisodeNumbers == { Undef, Num(0), Num(7) }

EpisodeTypes == { Undef, Str(<<"B", "o", "n", "u", "s">>), Num(1) }

Durations == { Undef, Str(<<"1", ":", "0", "5">>) }

ObjectItems ==
  { Obj("title" :> ti @@ "enclosure" :> en @@ "guid" :> gu @@ "itunes:episode" :> ep
          @@ "itunes:episodeType" :> ty @@ "itunes:duration" :> du) :
      ti \in Titles, en \in Enclosures, gu \in Guids, ep \in EpisodeNumbers,
      ty \in EpisodeTypes, du \in Durations }

\* a second item for two-element arrays
OtherItems ==
  { Str(<<>>),
    Obj([title |-> Str(<<"B", "l", "o", "g">>), description |-> Str(<<"p", "o", "s", "t">>)]),
    Obj("title" :> Str(<<"E", "p", " ", "2">>)
          @@ "enclosure" :> Obj("@_url" :> Str(<<"u", "9">>))
          @@ "itunes:keywords" :> Str(<<"a", ",", " ", "b", ",", ",">>)
          @@ "podcast:person" :> Obj("#text" :> Str(<<"J", "o">>) @@ "@_role" :> Str(<<"h", "o", "s", "t">>))) }

ItemShapes ==
  { Undef } \cup ObjectItems \cup { Arr(<<i>>) : i \in ObjectItems }
    \cup { Arr(<<i, j>>) : i \in OtherItems, j \in OtherItems }
    \cup { Arr(<<j, i>>) : j \in OtherItems,
             i \in { x \in ObjectItems : Get(x, "guid") = Undef /\ Get(x, "itunes:episode") = Undef
                                           /\ Get(x, "itunes:duration") = Undef } }

ChannelOf(item) ==
  Obj("title" :> Str(<<"S", "h", "o", "w">>)
        @@ "itunes:image" :> Obj("@_href" :> Str(<<"a", "r", "t">>))
        @@ "itunes:explicit" :> Str(LitYes)
        @@ "item" :> item)

OkResponse(rss) == [net |-> "ok", cause |-> {}, status |-> 200, wellFormed |-> TRUE, rss |-> rss]

Responses ==
  { OkResponse(Obj([rss |-> Obj([channel |-> ChannelOf(i)])])) : i \in ItemShapes }
    \cup { OkResponse(Obj([rss |-> Obj("@_version" :> Num(2))])),
           OkResponse(Obj([rss |-> Obj([channel |-> Str(<<>>)])])),
           OkResponse(Obj([html |-> Str(<<"x">>)])),
           [net |-> "ok", cause |-> {}, status |-> 200, wellFormed |-> FALSE, rss |-> Undef],
           [net |-> "ok", cause |-> {}, status |-> 404, wellFormed |-> TRUE, rss |-> Undef],
           [net |-> "error", cause |-> {}, status |-> 0, wellFormed |-> TRUE, rss |-> Undef],
           [net |-> "error", cause |-> {"timeout"}, status |-> 0, wellFormed |-> TRUE, rss |-> Undef] }

\* the channel of a well-formed answer, and its item
ChannelOfResponse(r) == Get(Get(r.rss, "rss"), "channel")
ItemOfResponse(r) == Get(ChannelOfResponse(r), "item")

\* the same answer with channel.item replaced by the one-element array of it
WrapItem(r) ==
  LET ch == ChannelOfResponse(r).o[1]
  IN OkResponse(Obj([rss |-> Obj([channel |-> Obj([ch EXCEPT !.item = Arr(<<ch.item>>)])])]))

ParseInit ==
  /\ response \in Responses
  /\ parseResult = <<>>
  /\ wrappedResult = <<>>
  /\ clock = 0
  /\ NoCall
  /\ CacheStart
  /\ PlayerStart

\* one call of parsePodcastFeed on the upstream answer
ParseFeed ==
  /\ parseResult = <<>>
  /\ parseResult' = <<parsePodcastFeed(FeedUrlA, response, IsoOf(clock))>>
  /\ UNCHANGED <<response, wrappedResult, clock, arg, ret>>
  /\ UNCHANGED <<cacheVars, playerVars>>

\* the same call on the document whose single item sits in an array
ParseWrapped ==
  /\ wrappedResult = <<>>
  /\ response.net = "ok" /\ response.wellFormed
  /\ ItemOfResponse(response).t = "obj"
  /\ wrappedResult' = <<parsePodcastFeed(FeedUrlA, WrapItem(response), IsoOf(clock))>>
  /\ UNCHANGED <<response, parseResult, clock, arg, ret>>
  /\ UNCHANGED <<cacheVars, playerVars>>

ParseNext == ParseFeed \/ ParseWrapped

SpecParse == ParseInit /\ [][ParseNext]_vars

(***************************************************************************)
(* server/utils/feed-cache.ts: the cache in front of parsePodcastFeed.     *)
(***************************************************************************)
DefaultTtl == 3600

\* the clock advances one TTL at a time
TickStep == DefaultTtl

\* what the upstream may answer while the cache is exercised: the feed, of
\* which the publisher has released version v, or a failure of the fetch or
\* of the parse
VersionDoc(v) ==
  OkResponse(Obj([rss |-> Obj([channel |->
    Obj("title" :> Str(<<"S", "h", "o", "w">> \o NumToStr(v))
          @@ "item" :> Obj("title" :> Str(<<"E", "p">> \o NumToStr(v))
                             @@ "enclosure" :> Obj("@_url" :> Str(<<"u">> \o NumToStr(v)))
                             @@ "pubDate" :> Str(<<"d">> \o NumToStr(v))))])]))

BadResponses ==
  { [net |-> "error", cause |-> {}, status |-> 0, wellFormed |-> TRUE, rss |-> Undef],
    OkResponse(Obj([rss |-> Obj("@_version" :> Num(2))])) }

\* the answers fetch number i may get: the publisher releases a new version
\* of the feed before every fetch
UpstreamResponses(i) == { VersionDoc(i) } \cup BadResponses

\* the instants the clock can show
Times == { k * TickStep : k \in 0..MaxTicks }

\* parsePodcastFeed on every answer the upstream may give, tabulated
ParsedUpstream ==
  [u \in Urls |->
    [r \in UNION { UpstreamResponses(i) : i \in 1..MaxFetches } |->
      [t \in Times |-> parsePodcastFeed(u, r, IsoOf(t))]]]

\* ValidAt that still serves an entry at the instant its TTL has elapsed
ValidAtInclusive(entry, t) == entry # <<>> /\ t - entry[1].fetchedAt <= DefaultTtl

\* an entry that exists and whose TTL has not elapsed at time t
ValidAt(entry, t) == entry # <<>> /\ t - entry[1].fetchedAt < DefaultTtl

\* the upstream fetches in flight for u
InFlight(u) == { i \in 1..Len(fetches) : fetches[i].url = u /\ fetches[i].settled = <<>> }

\* some fetch of u has succeeded
Succeeded(u) ==
  \E i \in 1..Len(fetches) :
    fetches[i].url = u /\ fetches[i].settled # <<>> /\ fetches[i].settled[1].ok

\* task c is free to serve a new request
Free(c) == requests[c].pc \in {"idle", "done", "cancelled"}

\* the task a request arriving now is served by: the first free one
Serving(c) == Free(c) /\ \A d \in Tasks : d < c => ~Free(d)

\* InflightAfterStart that forgets to register the fetch
InflightAfterStartUnregistered(flights, u) == flights

\* the in-flight map once a fetch of u has been started
InflightAfterStart(flights, u) == [flights EXCEPT ![u] = Len(fetches) + 1]

\* what getOrFetch(u) does for task c, the cache holding `entries` and the
\* in-flight map `flights`: answer from a valid entry, join the fetch in
\* flight, or start the one fetch
GetOrFetchBody(c, u, entries, flights) ==
  /\ cache' = entries
  /\ UNCHANGED clock
  /\ IF ValidAt(entries[u], clock)
     THEN /\ requests' = [requests EXCEPT ![c] =
                [pc |-> "done", url |-> u, awaiting |-> 0, result |-> <<entries[u][1].value>>]]
          /\ inflight' = flights
          /\ UNCHANGED fetches
     ELSE IF flights[u] # 0
     THEN /\ requests' = [requests EXCEPT ![c] =
                [pc |-> "waiting", url |-> u, awaiting |-> flights[u], result |-> <<>>]]
          /\ inflight' = flights
          /\ UNCHANGED fetches
     ELSE /\ Len(fetches) < MaxFetches
          /\ fetches' = Append(fetches, [url |-> u, settled |-> <<>>])
          /\ inflight' = InflightAfterStart(flights, u)
          /\ requests' = [requests EXCEPT ![c] =
                [pc |-> "waiting", url |-> u, awaiting |-> Len(fetches) + 1, result |-> <<>>]]

\* getFeed(url): a request arrives at task c and calls getOrFetch
GetFeed(c, u) ==
  /\ Serving(c)
  /\ GetOrFetchBody(c, u, cache, inflight)
  /\ UNCHANGED <<parseVars, playerVars>>

\* CacheAfterInvalidate that clears every key
CacheAfterInvalidateAll(u) == [v \in Urls |-> <<>>]

\* invalidate(url): the entry of the key is cleared; the fetch in flight, if
\* any, is left alone
CacheAfterInvalidate(u) == [cache EXCEPT ![u] = <<>>]

\* InflightAfterInvalidate that also forgets the fetch in flight
InflightAfterInvalidateForget(u) == [inflight EXCEPT ![u] = 0]

InflightAfterInvalidate(u) == inflight

\* invalidate(url) on its own
Invalidate(u) ==
  /\ cache' = CacheAfterInvalidate(u)
  /\ inflight' = InflightAfterInvalidate(u)
  /\ UNCHANGED <<fetches, requests, clock>>
  /\ UNCHANGED <<parseVars, playerVars>>

\* refreshFeed(url): invalidate, then get-or-fetch
RefreshFeed(c, u) ==
  /\ Serving(c)
  /\ GetOrFetchBody(c, u, CacheAfterInvalidate(u), InflightAfterInvalidate(u))
  /\ UNCHANGED <<parseVars, playerVars>>

\* StoredEntry that updates an existing entry's podcast in place and keeps its
\* episodes
StoredEntryMerged(u, outcome, old) ==
  IF old = <<>> THEN <<[value |-> outcome, fetchedAt |-> clock]>>
  ELSE <<[value |-> [outcome EXCEPT !.episodes = old[1].value.episodes], fetchedAt |-> clock]>>

\* the entry written when a fetch of u succeeds with feed `outcome`
StoredEntry(u, outcome, old) == <<[value |-> outcome, fetchedAt |-> clock]>>

\* the upstream answers fetch i with r: parsePodcastFeed finishes, a success
\* populates the cache, the shared fetch settles and leaves the in-flight map
CompleteFetch(i, r) ==
  LET u == fetches[i].url
      outcome == ParsedUpstream[u][r][clock]
  IN /\ fetches[i].settled = <<>>
     /\ fetches' = [fetches EXCEPT ![i].settled = <<outcome>>]
     /\ inflight' = [inflight EXCEPT ![u] = IF inflight[u] = i THEN 0 ELSE inflight[u]]
     /\ cache' = IF outcome.ok
                 THEN [cache EXCEPT ![u] = StoredEntry(u, outcome, cache[u])]
                 ELSE cache
     /\ UNCHANGED <<requests, clock>>
     /\ UNCHANGED <<parseVars, playerVars>>

\* AwaitedResult that reads the cache again after the await
AwaitedResultFromCache(c) ==
  IF cache[requests[c].url] # <<>> THEN <<cache[requests[c].url][1].value>>
  ELSE fetches[requests[c].awaiting].settled

\* what a request that awaited a fetch is answered
AwaitedResult(c) == fetches[requests[c].awaiting].settled

\* a waiting request resumes once the fetch it awaits has settled
Resume(c) ==
  /\ requests[c].pc = "waiting"
  /\ fetches[requests[c].awaiting].settled # <<>>
  /\ requests' = [requests EXCEPT ![c].pc = "done", ![c].result = AwaitedResult(c)]
  /\ UNCHANGED <<cache, inflight, fetches, clock>>
  /\ UNCHANGED <<parseVars, playerVars>>

\* FetchesAfterCancel that aborts the fetch the cancelled request awaited
FetchesAfterCancelAbort(c) ==
  [fetches EXCEPT ![requests[c].awaiting].settled =
      IF @ = <<>> THEN <<Thrown({"aborted"})>> ELSE @]

\* what cancelling a waiting request does to the shared fetches: nothing
FetchesAfterCancel(c) == fetches
InflightAfterCancel(c) == inflight

\* a waiting request is cancelled
Cancel(c) ==
  /\ requests[c].pc = "waiting"
  /\ requests' = [requests EXCEPT ![c].pc = "cancelled"]
  /\ fetches' = FetchesAfterCancel(c)
  /\ inflight' = InflightAfterCancel(c)
  /\ UNCHANGED <<cache, clock>>
  /\ UNCHANGED <<parseVars, playerVars>>

\* time passes
Tick ==
  /\ clock < MaxTicks * TickStep
  /\ clock' = clock + TickStep
  /\ UNCHANGED <<cache, inflight, fetches, requests>>
  /\ UNCHANGED <<parseVars, playerVars>>

CacheInit ==
  /\ CacheStart
  /\ PlayerStart
  /\ clock = 0
  /\ response = OkResponse(Undef)
  /\ parseResult = <<>>
  /\ wrappedResult = <<>>
  /\ NoCall

CompleteSomeFetch == \E i \in 1..Len(fetches) : \E r \in UpstreamResponses(i) : CompleteFetch(i, r)

\* one feed, as the site has it: requests, refreshes, invalidations,
\* cancellations and the passing of time on the single key
CacheNext ==
  \/ \E c \in Tasks : GetFeed(c, FeedUrlA)
  \/ \E c \in Tasks : RefreshFeed(c, FeedUrlA)
  \/ Invalidate(FeedUrlA)
  \/ CompleteSomeFetch
  \/ \E c \in Tasks : Resume(c)
  \/ \E c \in Tasks : Cancel(c)
  \/ Tick

SpecCache == CacheInit /\ [][CacheNext]_vars

\* two feeds behind the same cache
KeysNext ==
  \/ \E c \in Tasks, u \in Urls : GetFeed(c, u)
  \/ \E c \in Tasks, u \in Urls : RefreshFeed(c, u)
  \/ \E u \in Urls : Invalidate(u)
  \/ CompleteSomeFetch
  \/ \E c \in Tasks : Resume(c)

SpecKeys == CacheInit /\ [][KeysNext]_vars

(***************************************************************************)
(* Properties of the feed cache, checked under SpecCache.                  *)
(***************************************************************************)
WaitingOn(u) == { c \in Tasks : requests[c].pc = "waiting" /\ requests[c].url = u }

\* the requests still suspended on an unsettled fetch of u
Suspended(u) == { c \in WaitingOn(u) : fetches[requests[c].awaiting].settled = <<>> }

FetchCountIn(fs, u) == Cardinality({ i \in 1..Len(fs) : fs[i].url = u })

\* task c runs getOrFetch in this step
GetStep(c) ==
  /\ requests[c].pc \in {"idle", "done", "cancelled"}
  /\ requests'[c] # requests[c]
  /\ requests'[c].pc \in {"waiting", "done"}

\* the entry is unexpired, stated on the entry itself
Fresh(entry) == entry # <<>> /\ clock - entry[1].fetchedAt < DefaultTtl

\* C1: for every feed URL at most one upstream fetch is in flight at any
\* instant, whatever the interleaving of getOrFetch, refresh and expiry.
C1_AtMostOneFetchInFlight ==
  \A u \in Urls : Cardinality(InFlight(u)) <= 1

\* C1 witness: after a success the entry of u was invalidated while a fetch
\* of u is in flight, and two requests share that fetch.
C1_Witness ==
  \E u \in Urls :
    /\ Succeeded(u) /\ cache[u] = <<>>
    /\ Cardinality(InFlight(u)) = 1
    /\ Cardinality(Suspended(u)) >= 2

\* C2: concurrent getOrFetch calls for a URL with no cached entry make
\* exactly one upstream fetch: all suspended requests of the URL await the
\* same single fetch in flight, and as long as no fetch of the URL has settled
\* the URL has been fetched exactly once.
C2_ConcurrentCallsOneFetch ==
  \A u \in Urls :
    /\ Suspended(u) # {} =>
         \E i \in 1..Len(fetches) :
           /\ InFlight(u) = {i}
           /\ \A c \in Suspended(u) : requests[c].awaiting = i
    /\ ( /\ \E c \in Tasks : requests[c].url = u /\ requests[c].pc \in {"waiting", "cancelled"}
         /\ \A i \in 1..Len(fetches) : fetches[i].url = u => fetches[i].settled = <<>> )
       => FetchCountIn(fetches, u) = 1

\* C2 witness: every task is suspended on the one fetch of a URL that has no
\* entry and has never been fetched before.
C2_Witness ==
  \E u \in Urls :
    /\ cache[u] = <<>> /\ ~Succeeded(u)
    /\ Suspended(u) = Tasks
    /\ FetchCountIn(fetches, u) = 1

GoodFeedTable ==
  [u \in Urls |-> { parsePodcastFeed(u, VersionDoc(i), IsoOf(0)) : i \in 1..MaxFetches }]
GoodFeeds(u) == GoodFeedTable[u]

\* C4: a failed fetch or parse never creates or replaces an entry: every
\* entry is the complete feed of a successful fetch, the step in which a
\* fetch fails leaves the cache as it was, and the requests that awaited the
\* failed fetch are answered with its error.
C4_FailureDoesNotPoison ==
  /\ [](\A u \in Urls : cache[u] # <<>> => cache[u][1].value \in GoodFeeds(u))
  /\ [](\A c \in Tasks :
          (requests[c].pc = "done" /\ requests[c].awaiting # 0
             /\ ~fetches[requests[c].awaiting].settled[1].ok)
          => (~requests[c].result[1].ok
                /\ requests[c].result = fetches[requests[c].awaiting].settled))
  /\ [][\A i \in 1..Len(fetches) :
          (fetches[i].settled = <<>> /\ fetches'[i].settled # <<>>
             /\ fetches'[i].settled[1] \notin GoodFeeds(fetches[i].url))
          => cache' = cache]_vars

\* C4 witness: a request was answered with an error while the key still
\* holds the entry of the earlier successful fetch.
C4_Witness ==
  \E c \in Tasks :
    /\ requests[c].pc = "done" /\ requests[c].awaiting # 0
    /\ ~requests[c].result[1].ok
    /\ cache[requests[c].url] # <<>>

\* C5: every feed a request is answered with, and every entry, is one whole
\* version of the feed: podcast and episodes of the same upstream version,
\* never a mixture of an old and a new one.
C5_ReadersSeeWholeFeed ==
  /\ \A u \in Urls : cache[u] # <<>> => cache[u][1].value \in GoodFeeds(u)
  /\ \A c \in Tasks :
       (requests[c].pc = "done" /\ requests[c].result[1].ok)
         => requests[c].result[1] \in GoodFeeds(requests[c].url)

\* C5 witness: the entry of a URL was replaced by a refetch; one request was
\* answered the old feed and another the new one.
C5_Witness ==
  \E c, d \in Tasks :
    /\ requests[c].pc = "done" /\ requests[d].pc = "done"
    /\ requests[c].url = requests[d].url
    /\ requests[c].result[1].ok /\ requests[d].result[1].ok
    /\ requests[c].result # requests[d].result
    /\ cache[requests[d].url] # <<>>
    /\ <<cache[requests[d].url][1].value>> = requests[d].result

\* C6: the requests that awaited the same fetch are all answered the same
\* outcome, the same feed or the same failure.
C6_WaitersShareOutcome ==
  \A c, d \in Tasks :
    (requests[c].pc = "done" /\ requests[d].pc = "done"
       /\ requests[c].awaiting # 0 /\ requests[c].awaiting = requests[d].awaiting)
    => requests[c].result = requests[d].result

\* C6 witness: two requests that awaited the same fetch have been answered,
\* although the entry of their URL was invalidated in between.
C6_Witness ==
  \E c, d \in Tasks :
    /\ c # d
    /\ requests[c].pc = "done" /\ requests[d].pc = "done"
    /\ requests[c].awaiting # 0 /\ requests[c].awaiting = requests[d].awaiting
    /\ requests[c].result[1].ok
    /\ cache[requests[c].url] = <<>>

\* C7: cancelling a waiting request leaves the fetch it awaited, the
\* in-flight map, the cache and every other request as they were, and a
\* request answered after awaiting a fetch is answered that fetch's outcome.
C7_CancelLeavesFetch ==
  /\ [][\A c \in Tasks :
          (requests[c].pc = "waiting" /\ requests'[c].pc = "cancelled")
          => /\ fetches' = fetches
             /\ inflight' = inflight
             /\ cache' = cache
             /\ \A d \in Tasks \ {c} : requests'[d] = requests[d]]_vars
  /\ [](\A d \in Tasks :
          (requests[d].pc = "done" /\ requests[d].awaiting # 0)
          => requests[d].result = fetches[requests[d].awaiting].settled)

\* C7 witness: one request waiting on a fetch was cancelled and another
\* request has been answered the outcome of that same fetch.
C7_Witness ==
  \E c, d \in Tasks :
    /\ requests[c].pc = "cancelled" /\ requests[d].pc = "done"
    /\ requests[c].awaiting = requests[d].awaiting
    /\ requests[d].result # <<>>

\* what the cache holds for key u, and the requests suspended on it
KeyState(u) ==
  [entry |-> cache[u], flight |-> inflight[u],
   fetched |-> { <<i, fetches[i].settled>> : i \in { j \in 1..Len(fetches) : fetches[j].url = u } },
   waiting |-> { <<c, requests[c].awaiting>> : c \in WaitingOn(u) }]

\* a request of key u arrives, resumes or is cancelled in this step
RequestStep(u) ==
  \E c \in Tasks : requests'[c] # requests[c]
                     /\ (requests'[c].url = u \/ (requests[c].url = u /\ requests[c].pc = "waiting"))

\* C8: keys are independent: a step that changes anything of one URL, or
\* serves a request of it, changes nothing of another URL, and a request is
\* only ever answered a feed of its own URL.
C8_KeysIndependent ==
  /\ [][\A a, b \in Urls :
          (a # b /\ (KeyState(a)' # KeyState(a) \/ RequestStep(a)))
          => KeyState(b)' = KeyState(b)]_vars
  /\ [](\A c \in Tasks :
          (requests[c].pc = "done" /\ requests[c].result[1].ok)
          => requests[c].result[1].podcast.feedUrl = requests[c].url)

\* C8 witness: fetches of both URLs are in flight at the same time, each
\* with a request suspended on it.
C8_Witness ==
  /\ InFlight(FeedUrlA) # {} /\ InFlight(FeedUrlB) # {}
  /\ Suspended(FeedUrlA) # {} /\ Suspended(FeedUrlB) # {}

(***************************************************************************)
(* Properties of the mapper, checked under SpecParse.                      *)
(***************************************************************************)
\* the items of the upstream answer, as a list
ResponseItems == AsList(ItemOfResponse(response))

\* an item that carries a non-empty enclosure URL (attribute or child)
HasAudio(item) ==
  \/ Truthy(Get(Get(item, "enclosure"), "@_url"))
  \/ Truthy(Get(Get(item, "enclosure"), "url"))

\* C9: every episode parsePodcastFeed returns has a non-empty audioUrl, and
\* the episodes are exactly the items that carry an enclosure URL.
C9_EpisodesHaveAudioUrl ==
  (parseResult # <<>> /\ parseResult[1].ok) =>
    /\ \A i \in 1..Len(parseResult[1].episodes) :
         /\ parseResult[1].episodes[i].audioUrl.t # "undef"
         /\ parseResult[1].episodes[i].audioUrl # Str(<<>>)
         /\ Truthy(parseResult[1].episodes[i].audioUrl)
    /\ Len(parseResult[1].episodes) = Len(SelectSeq(ResponseItems, HasAudio))

\* C9 witness: a feed of two items, one without a usable enclosure, was
\* parsed into one episode.
C9_Witness ==
  /\ parseResult # <<>> /\ parseResult[1].ok
  /\ Len(ResponseItems) = 2
  /\ Len(parseResult[1].episodes) = 1

\* C10: a channel whose item is a single object parses to the same result as
\* the channel with that item in a one-element array, and to exactly one
\* episode when the item carries an enclosure URL and parses at all.
C10_SingleItemAsArray ==
  (parseResult # <<>> /\ wrappedResult # <<>>) =>
    /\ parseResult = wrappedResult
    /\ (parseResult[1].ok /\ HasAudio(ItemOfResponse(response)))
         => Len(parseResult[1].episodes) = 1

\* C10 witness: a single-object item with an enclosure URL was parsed both
\* ways and yielded one episode.
C10_Witness ==
  /\ parseResult # <<>> /\ wrappedResult # <<>>
  /\ ItemOfResponse(response).t = "obj"
  /\ parseResult[1].ok
  /\ Len(parseResult[1].episodes) = 1

\* the upstream answered and its body parsed as XML
Answered(r) == r.net = "ok" /\ r.status \in 200..299 /\ r.wellFormed

\* C11: when the parsed document has no rss.channel node, parsePodcastFeed
\* fails with the missing-channel error and its outcome carries neither
\* podcast metadata nor episodes.
C11_MissingChannelFails ==
  (parseResult # <<>> /\ Answered(response) /\ ~Truthy(ChannelOfResponse(response)))
  => /\ ~parseResult[1].ok
     /\ "Invalid RSS feed: missing channel element" \in parseResult[1].phrases
     /\ DOMAIN parseResult[1] = {"ok", "phrases"}

\* C11 witness: a document whose rss element has no channel was parsed.
C11_Witness ==
  /\ parseResult # <<>> /\ Answered(response)
  /\ Get(response.rss, "rss").t = "obj"
  /\ ChannelOfResponse(response) = Undef
  /\ ~parseResult[1].ok

\* C12 as stated: whatever the shape of an item's fields, the parse of a
\* document that has a channel succeeds and returns the feed.
C12_Original ==
  (parseResult # <<>> /\ Answered(response) /\ Truthy(ChannelOfResponse(response)))
  => parseResult[1].ok

(***************************************************************************)
(* app/utils/format.ts                                                     *)
(***************************************************************************)
\* s.padStart(2, '0')
PadStart2(cs) == IF Len(cs) < 2 THEN <<"0">> \o cs ELSE cs

\* formatDuration that takes the minutes of the whole duration, not of the
\* last hour
formatDurationWholeMinutes(seconds) ==
  IF seconds.t = "nan" \/ seconds.n < 0 THEN <<"0", ":", "0", "0">>
  ELSE LET hours == seconds.n \div 3600
           minutes == seconds.n \div 60
           secs == seconds.n % 60
       IN IF hours > 0
          THEN NumToStr(hours) \o <<":">> \o PadStart2(NumToStr(minutes))
                 \o <<":">> \o PadStart2(NumToStr(secs))
          ELSE NumToStr(minutes) \o <<":">> \o PadStart2(NumToStr(secs))

\* formatDuration(seconds) for an integer or NaN
formatDuration(seconds) ==
  IF seconds.t = "nan" \/ seconds.n < 0 THEN <<"0", ":", "0", "0">>
  ELSE LET hours == seconds.n \div 3600
           minutes == (seconds.n % 3600) \div 60
           secs == seconds.n % 60
       IN IF hours > 0
          THEN NumToStr(hours) \o <<":">> \o PadStart2(NumToStr(minutes))
                 \o <<":">> \o PadStart2(NumToStr(secs))
          ELSE NumToStr(minutes) \o <<":">> \o PadStart2(NumToStr(secs))

\* parseDuration of app/utils/format.ts: as the mapper's parseDuration, but a
\* single part that is NaN yields 0
formatParseDuration(input) ==
  IF ~Truthy(input) THEN Num(0)
  ELSE IF input.t = "num" THEN input
  ELSE LET strs == Split(String(input), ":")
           parts == [i \in 1..Len(strs) |-> ParseInt(Str(strs[i]))]
       IN CASE Len(parts) = 3 -> MulAdd(MulAdd(parts[1], 60, parts[2]), 60, parts[3])
            [] Len(parts) = 2 -> MulAdd(parts[1], 60, parts[2])
            [] Len(parts) = 1 /\ parts[1].t # "nan" -> parts[1]
            [] OTHER -> Num(0)

\* ---- duration strings ----
MaxDurationLen == 3
DurationChars == {"1", "5", "x", ":"}

RECURSIVE StringsOfLen(_)
StringsOfLen(k) ==
  IF k = 0 THEN { <<>> }
  ELSE { <<c>> \o cs : c \in DurationChars, cs \in StringsOfLen(k - 1) }

DurationInputs ==
  { Str(cs) : cs \in UNION { StringsOfLen(k) : k \in 0..MaxDurationLen } }
    \cup { Undef, Num(0), Num(90), Bool(TRUE), Str(<<"1", ":", "0", "2", ":", "0", "3">>),
           Str(<<":", ":", ":">>), Str(<<"a", "b", "c">>) }

DurationInit ==
  /\ arg \in DurationInputs
  /\ ret = <<>>
  /\ response = OkResponse(Undef)
  /\ parseResult = <<>>
  /\ wrappedResult = <<>>
  /\ clock = 0
  /\ CacheStart
  /\ PlayerStart

\* parseDuration(arg) in server/utils/feed-parser.ts
ParseDurationServer ==
  /\ ret = <<>>
  /\ ret' = <<[by |-> "feed-parser", value |-> parseDuration(arg)]>>
  /\ UNCHANGED <<response, parseResult, wrappedResult, clock, arg>>
  /\ UNCHANGED <<cacheVars, playerVars>>

\* parseDuration(arg) in app/utils/format.ts
ParseDurationClient ==
  /\ ret = <<>>
  /\ ret' = <<[by |-> "format", value |-> formatParseDuration(arg)]>>
  /\ UNCHANGED <<response, parseResult, wrappedResult, clock, arg>>
  /\ UNCHANGED <<cacheVars, playerVars>>

DurationNext == ParseDurationServer \/ ParseDurationClient

SpecDuration == DurationInit /\ [][DurationNext]_vars

(***************************************************************************)
(* Properties of parseDuration, checked under SpecDuration.                *)
(***************************************************************************)
\* a part of a duration string that parseInt cannot read
BadPart(cs) == ParseInt(Str(cs)).t = "nan"

\* a malformed duration: a non-numeric string without a colon, or a
\* colon-separated string with a missing or non-numeric part
Malformed(v) ==
  /\ v.t = "str" /\ v.s # <<>>
  /\ \E i \in 1..Len(Split(v.s, ":")) : BadPart(Split(v.s, ":")[i])

\* C13 as stated: parseDuration returns 0 for every malformed input, never
\* NaN (that it never throws is the totality of the two definitions).
C13_Original ==
  (ret # <<>> /\ Malformed(arg)) => ret[1].value = Num(0)

(***************************************************************************)
(* formatDuration followed by parseDuration (app/utils/format.ts).         *)
(***************************************************************************)
MaxSeconds == 7325

FormatInit ==
  /\ arg \in { Num(k) : k \in 0..MaxSeconds }
  /\ ret = <<>>
  /\ response = OkResponse(Undef)
  /\ parseResult = <<>>
  /\ wrappedResult = <<>>
  /\ clock = 0
  /\ CacheStart
  /\ PlayerStart

\* parseDuration(formatDuration(arg))
FormatThenParse ==
  /\ ret = <<>>
  /\ ret' = <<[text |-> formatDuration(arg),
               value |-> formatParseDuration(Str(formatDuration(arg)))]>>
  /\ UNCHANGED <<response, parseResult, wrappedResult, clock, arg>>
  /\ UNCHANGED <<cacheVars, playerVars>>

FormatNext == FormatThenParse

SpecFormat == FormatInit /\ [][FormatNext]_vars

\* C14: for every non-negative integer n (here up to MaxSeconds),
\* parseDuration(formatDuration(n)) is n.
C14_FormatParseRoundTrip ==
  ret # <<>> => ret[1].value = arg

\* C14 witness: a duration of more than an hour whose minutes and seconds
\* are both padded was formatted as H:MM:SS and parsed back.
C14_Witness ==
  /\ ret # <<>>
  /\ arg.n >= 3600 /\ (arg.n % 3600) \div 60 \in 1..9 /\ arg.n % 60 \in 1..9
  /\ Len(Split(ret[1].text, ":")) = 3
  /\ ret[1].value = arg

(***************************************************************************)
(* Calls of generateSlug (server/utils/slug.ts).                           *)
(***************************************************************************)
MaxWords == 24
MaxShift == 5

RECURSIVE Repeat(_, _)
\* cs repeated k times
Repeat(cs, k) == IF k = 0 THEN <<>> ELSE cs \o Repeat(cs, k - 1)

\* titles that stay under the limit
ShortTitles ==
  { Undef, Str(<<>>), Num(42),
    Str(<<"S", "a", "l", "t", " ", "&", " ", "P", "e", "p", "p", "e", "r">>),
    Str(<<"I", "t", "'", "s", " ", "-", "-", " ", "O", "K", "!">>),
    Str(<<"!", "?", "!">>),
    Str(<<" ", " ">>) }

\* titles around and over the limit: words of five letters after a first word
\* of 1..MaxShift letters, so that the limit falls on every position of a word,
\* and one long word without any boundary
LongTitles ==
  { Str(Repeat(<<"a">>, j) \o Repeat(<<" ", "w", "o", "r", "d", "s">>, k)) :
      j \in 1..MaxShift, k \in 15..MaxWords }
    \cup { Str(Repeat(<<"a">>, MaxSlugLength + j)) : j \in 0..MaxShift }

SlugNumbers == { Undef, Num(0), Num(7), Num(999), Num(0 - 1) }

SlugInit ==
  /\ arg \in [title : ShortTitles \cup LongTitles, episodeNumber : SlugNumbers]
  /\ ret = <<>>
  /\ response = OkResponse(Undef)
  /\ parseResult = <<>>
  /\ wrappedResult = <<>>
  /\ clock = 0
  /\ CacheStart
  /\ PlayerStart

\* generateSlug(arg.title, arg.episodeNumber)
GenerateSlug ==
  /\ ret = <<>>
  /\ ret' = <<generateSlug(arg.title, arg.episodeNumber)>>
  /\ UNCHANGED <<response, parseResult, wrappedResult, clock, arg>>
  /\ UNCHANGED <<cacheVars, playerVars>>

SlugNext == GenerateSlug

SpecSlug == SlugInit /\ [][SlugNext]_vars

\* C15 as stated: for every title and every optional episodeNumber the slug
\* has at most 100 characters and does not end in a hyphen.
C15_Original ==
  ret # <<>> =>
    /\ Len(ret[1]) <= MaxSlugLength
    /\ (ret[1] # <<>> => ret[1][Len(ret[1])] # "-")

(***************************************************************************)
(* Properties of the mapped episode, checked under SpecParse.              *)
(***************************************************************************)
\* the document's single item was mapped to the one episode of the result
SingleEpisodeMapped ==
  /\ parseResult # <<>> /\ Answered(response)
  /\ ItemOfResponse(response).t = "obj"
  /\ parseResult[1].ok
  /\ Len(parseResult[1].episodes) = 1

\* C16 as stated: an item that carries an itunes:episode value n, n = 0
\* included, is mapped to an episode with episodeNumber n whose slug is the
\* title's slug with "n-" prepended.
C16_Original ==
  (SingleEpisodeMapped /\ Get(ItemOfResponse(response), "itunes:episode").t = "num")
  => LET n == Get(ItemOfResponse(response), "itunes:episode")
         episode == parseResult[1].episodes[1]
     IN /\ episode.episodeNumber = n
        /\ episode.slug = Str(NumToStr(n.n) \o <<"-">> \o generateSlug(episode.title, Undef))

\* C17: an item without a guid element is mapped to an episode whose guid
\* is the item's enclosure URL, the episode's audioUrl.
C17_GuidFallsBackToAudioUrl ==
  (SingleEpisodeMapped /\ Get(ItemOfResponse(response), "guid") = Undef)
  => LET enclosure == Get(ItemOfResponse(response), "enclosure")
         episode == parseResult[1].episodes[1]
     IN /\ episode.guid = episode.audioUrl
        /\ Truthy(episode.guid)
        /\ episode.guid \in {Get(enclosure, "@_url"), Get(enclosure, "url")}

\* C17 witness: an item without guid, whose enclosure gives its URL in the
\* url field, was mapped to an episode with that URL as guid.
C17_Witness ==
  /\ SingleEpisodeMapped
  /\ Get(ItemOfResponse(response), "guid") = Undef
  /\ parseResult[1].episodes[1].guid = Str(<<"u", "3">>)

(***************************************************************************)
(* Calls of parsePodcast2Tags on a channel or item node.                   *)
(***************************************************************************)
MaxTranscripts == 3

\* declared types of a podcast:transcript entry; <<>> stands for no type
TranscriptTypes == { TextVtt, SubRip, TextPlain, <<"t", "e", "x", "t", "/", "h", "t", "m", "l">>, <<>> }

RECURSIVE TypeLists(_)
TypeLists(k) ==
  IF k = 0 THEN { <<>> }
  ELSE { <<ty>> \o tys : ty \in TranscriptTypes, tys \in TypeLists(k - 1) }

\* the i-th podcast:transcript entry, of declared type ty, with or without
\* a URL (the URL names the position)
TranscriptEntry(i, ty, withUrl) ==
  LET typed == IF ty = <<>> THEN <<>> ELSE <<ty>>
  IN IF withUrl /\ typed # <<>>
       THEN Obj("@_url" :> Str(<<"t">> \o NumToStr(i)) @@ "@_type" :> Str(ty))
     ELSE IF withUrl THEN Obj("@_url" :> Str(<<"t">> \o NumToStr(i)))
     ELSE IF typed # <<>> THEN Obj("@_type" :> Str(ty))
     ELSE Obj("@_language" :> Str(<<"e", "n">>))

\* items with 1..MaxTranscripts transcript entries, every entry with a URL or
\* all but the entry at position `bare`
TranscriptItems ==
  { Obj("podcast:transcript" :>
          Arr([i \in 1..Len(tys) |-> TranscriptEntry(i, tys[i], i # bare)])) :
      tys \in UNION { TypeLists(k) : k \in 1..MaxTranscripts }, bare \in 0..2 }
    \cup { Obj("podcast:transcript" :> TranscriptEntry(1, ty, b)) :
             ty \in TranscriptTypes, b \in BOOLEAN }

\* items with every combination of the other tags absent, empty or present
OtherTagItems ==
  { Obj("title" :> Str(<<"E", "p">>)
          @@ "podcast:transcript" :> tr @@ "podcast:chapters" :> ch
          @@ "podcast:person" :> pe @@ "podcast:funding" :> fu @@ "podcast:guid" :> gu) :
      tr \in { Undef, Str(<<>>), TranscriptEntry(1, TextVtt, FALSE) },
      ch \in { Undef, Str(<<>>), Obj("@_url" :> Str(<<"c">>)) },
      pe \in { Undef, Str(<<"J", "o">>),
               Arr(<<Obj("#text" :> Str(<<"J", "o">>) @@ "@_role" :> Str(<<"h", "o", "s", "t">>)),
                     Obj("@_name" :> Str(<<"A", "l">>))>>) },
      fu \in { Undef, Obj("@_url" :> Str(<<"f">>) @@ "#text" :> Str(<<"t", "i", "p">>)) },
      gu \in { Undef, Str(<<"g">>), Obj("#text" :> Str(<<"g">>)) } }

TagsInit ==
  /\ arg \in TranscriptItems \cup OtherTagItems
  /\ ret = <<>>
  /\ response = OkResponse(Undef)
  /\ parseResult = <<>>
  /\ wrappedResult = <<>>
  /\ clock = 0
  /\ CacheStart
  /\ PlayerStart

\* parsePodcast2Tags(arg)
ExtractTags ==
  /\ ret = <<>>
  /\ ret' = <<parsePodcast2Tags(arg)>>
  /\ UNCHANGED <<response, parseResult, wrappedResult, clock, arg>>
  /\ UNCHANGED <<cacheVars, playerVars>>

TagsNext == ExtractTags

SpecTags == TagsInit /\ [][TagsNext]_vars

\* the podcast:transcript entries of the node, as a list
RawTranscripts == AsList(Get(arg, "podcast:transcript"))

\* the type an entry counts as: its declared type, text/plain when it
\* declares none
TypeOfEntry(e) == Or(Or(Get(e, "@_type"), Get(e, "type")), Str(TextPlain))

\* position of the first entry of type ty, 0 when there is none
FirstOfType(ty) ==
  LET hits == { i \in 1..Len(RawTranscripts) : TypeOfEntry(RawTranscripts[i]) = Str(ty) }
  IN IF hits = {} THEN 0 ELSE CHOOSE i \in hits : \A j \in hits : i <= j

\* position of the entry the selection order designates
Designated ==
  IF FirstOfType(TextVtt) # 0 THEN FirstOfType(TextVtt)
  ELSE IF FirstOfType(SubRip) # 0 THEN FirstOfType(SubRip)
  ELSE IF FirstOfType(TextPlain) # 0 THEN FirstOfType(TextPlain)
  ELSE 1

\* C18: of several podcast:transcript entries the one retained is the first
\* of type text/vtt, else the first of type application/x-subrip, else the
\* first of type text/plain, else the first entry; it is retained whenever
\* it carries a URL, and no other entry is ever retained in its place.
C18_TranscriptPreference ==
  (ret # <<>> /\ Truthy(Get(arg, "podcast:transcript")))
  => LET chosen == RawTranscripts[Designated]
         url == Or(Get(chosen, "@_url"), Get(chosen, "url"))
         kept == IF ret[1] = <<>> THEN <<>> ELSE ret[1][1].transcript
     IN /\ Truthy(url) => (kept # <<>> /\ kept[1].url = url /\ kept[1].type = TypeOfEntry(chosen))
        /\ ~Truthy(url) => kept = <<>>

\* C18 witness: of three entries with URLs, none of them text/vtt, the
\* second is the first application/x-subrip one and was retained over the
\* first entry and over a later text/plain one.
C18_Witness ==
  /\ ret # <<>> /\ ret[1] # <<>>
  /\ Len(RawTranscripts) = 3
  /\ IsArray(Get(arg, "podcast:transcript"))
  /\ TypeOfEntry(RawTranscripts[1]) \notin {Str(TextVtt), Str(SubRip), Str(TextPlain)}
  /\ TypeOfEntry(RawTranscripts[2]) = Str(SubRip)
  /\ TypeOfEntry(RawTranscripts[3]) = Str(TextPlain)
  /\ ret[1][1].transcript # <<>>
  /\ ret[1][1].transcript[1].url = Str(<<"t", "2">>)

\* the fields of a Podcast2Tags object
TagFields == {"transcript", "chapters", "persons", "funding", "guid"}

\* C19: parsePodcast2Tags yields a podcast2 block only with at least one of
\* transcript, chapters, persons, funding and guid set in it; when none is
\* set the block is absent, never an object without fields.
C19_NoEmptyPodcast2 ==
  ret # <<>> =>
    /\ ret[1] # <<>> => \E f \in TagFields : ret[1][1][f] # <<>>
    /\ (\A k \in {"podcast:chapters", "podcast:person", "podcast:funding", "podcast:guid"} :
           ~Truthy(Get(arg, k)))
       => (ret[1] # <<>> => ret[1][1].transcript # <<>>)

\* C19 witness: a node whose only tag is a transcript without URL: no field
\* is set and no block is returned.
C19_Witness ==
  /\ ret = << <<>> >>
  /\ Truthy(Get(arg, "podcast:transcript"))
  /\ Get(arg, "podcast:chapters") = Undef

(***************************************************************************)
(* server/api/podcast/people.get.ts: persons aggregated over the episodes. *)
(***************************************************************************)
\* \w of a lowercased string
IsWordChar(c) == IsSlugChar(c) \/ c = "_"

\* personSlug(name)
personSlug(name) ==
  LET lowered == ToLowerCase(name)
      kept == SelectSeq(lowered, LAMBDA c : IsWordChar(c) \/ IsSpace(c) \/ c = "-")
      marked == [i \in 1..Len(kept) |-> IF IsSpace(kept[i]) THEN "-" ELSE kept[i]]
      idx == SelectSeq([i \in 1..Len(kept) |-> i],
               LAMBDA i : marked[i] # "-" \/ i = 1 \/ marked[i - 1] # "-")
  IN Trim([k \in 1..Len(idx) |-> marked[idx[k]]])

\* FillField that never fills a field in
FillFieldNever(existing, new) == existing

\* FillField that takes every later non-empty value
FillFieldLatest(existing, new) ==
  IF Truthy(new) THEN new ELSE existing

\* if (!existing.f && p.f) existing.f = p.f
FillField(existing, new) ==
  IF ~Truthy(existing) /\ Truthy(new) THEN new ELSE existing

\* PushUnique without the includes test
PushAlways(list, x) == Append(list, x)

\* if (!list.includes(x)) list.push(x)
PushUnique(list, x) ==
  IF \E k \in 1..Len(list) : list[k] = x THEN list ELSE Append(list, x)

\* the loop body for one person tag p of the episode with slug episodeSlug;
\* people is the Map's values in insertion order
AddPerson(people, episodeSlug, p) ==
  IF ~Truthy(p.name) THEN people
  ELSE LET slug == Str(personSlug(p.name.s))
           hits == { i \in 1..Len(people) : people[i].slug = slug }
       IN IF hits # {}
          THEN LET i == CHOOSE j \in hits : TRUE
                   existing == people[i]
               IN [people EXCEPT ![i] =
                     [slug |-> existing.slug,
                      name |-> existing.name,
                      role |-> FillField(existing.role, p.role),
                      group |-> FillField(existing.group, p.group),
                      img |-> FillField(existing.img, p.img),
                      href |-> FillField(existing.href, p.href),
                      episodeSlugs |-> PushUnique(existing.episodeSlugs, episodeSlug)]]
          ELSE Append(people, [slug |-> slug, name |-> p.name, role |-> p.role,
                               group |-> p.group, img |-> p.img, href |-> p.href,
                               episodeSlugs |-> <<episodeSlug>>])

\* episode.podcast2?.persons, <<>> when there is none
PersonsOfEpisode(episode) ==
  IF episode.podcast2 = <<>> \/ episode.podcast2[1].persons = <<>> THEN <<>>
  ELSE episode.podcast2[1].persons[1]

RECURSIVE AddPersons(_, _, _)
AddPersons(people, episodeSlug, persons) ==
  IF persons = <<>> THEN people
  ELSE AddPersons(AddPerson(people, episodeSlug, Head(persons)), episodeSlug, Tail(persons))

RECURSIVE AddEpisodes(_, _)
AddEpisodes(people, episodes) ==
  IF episodes = <<>> THEN people
  ELSE AddEpisodes(AddPersons(people, Head(episodes).slug, PersonsOfEpisode(Head(episodes))),
                   Tail(episodes))

\* lexicographic order on sequences of numbers
LexLess(x, y) ==
  \E k \in 1..(Len(x) + 1) :
    /\ \A i \in 1..(k - 1) : i <= Len(y) /\ x[i] = y[i]
    /\ k <= Len(y)
    /\ (k > Len(x) \/ x[k] < y[k])

\* a.localeCompare(b) < 0 on letters and spaces: alphabetical without regard
\* to case, then lower case before upper case
LocaleLess(a, b) ==
  LET letter(c) == IF \E i \in 1..26 : LowerChars[i] = LowerChar(c)
                   THEN CHOOSE i \in 1..26 : LowerChars[i] = LowerChar(c) ELSE 0
      primary(cs) == [i \in 1..Len(cs) |-> letter(cs[i])]
      cased(cs) == [i \in 1..Len(cs) |-> IF LowerChar(cs[i]) = cs[i] THEN 0 ELSE 1]
  IN \/ LexLess(primary(a), primary(b))
     \/ primary(a) = primary(b) /\ LexLess(cased(a), cased(b))

\* the comparator of the final sort is negative
SortsBefore(a, b) ==
  \/ Len(a.episodeSlugs) > Len(b.episodeSlugs)
  \/ Len(a.episodeSlugs) = Len(b.episodeSlugs) /\ LocaleLess(a.name.s, b.name.s)

\* Array.prototype.sort (stable) with that comparator
SortPeople(people) ==
  LET n == Len(people)
      perms == { f \in [1..n -> 1..n] : \A i, j \in 1..n : i # j => f[i] # f[j] }
      order == CHOOSE f \in perms :
                 \A i, j \in 1..n : i < j =>
                   \/ SortsBefore(people[f[i]], people[f[j]])
                   \/ ~SortsBefore(people[f[j]], people[f[i]]) /\ f[i] < f[j]
  IN [i \in 1..n |-> people[order[i]]]

\* the handler on the cached feed's episodes
aggregatePeople(episodes) == SortPeople(AddEpisodes(<<>>, episodes))

NumEpisodes == 3

\* podcast:person values of an item: none, one tag, several tags, a tag
\* without attributes, names that differ in case only
PersonTags ==
  { Undef,
    Str(<<"J", "o">>),
    Obj("#text" :> Str(<<"J", "o">>) @@ "@_role" :> Str(<<"h", "o", "s", "t">>)),
    Obj("#text" :> Str(<<"J", "o">>) @@ "@_role" :> Str(<<"g", "u", "e", "s", "t">>)
          @@ "@_img" :> Str(<<"i">>)),
    Arr(<<Obj("#text" :> Str(<<"A", "l">>)), Obj("#text" :> Str(<<"J", "o">>))>>),
    Obj("#text" :> Str(<<"J", "O">>) @@ "@_href" :> Str(<<"h">>)) }

\* the i-th episode of the feed, as the mapper leaves it, reduced to the two
\* fields the handler reads
PeopleEpisode(i, tag) ==
  [slug |-> Str(<<"e">> \o NumToStr(i)),
   podcast2 |-> parsePodcast2Tags(Obj("podcast:person" :> tag))]

EpisodeOrders ==
  { f \in [1..NumEpisodes -> 1..NumEpisodes] : \A i, j \in 1..NumEpisodes : i # j => f[i] # f[j] }

\* the same episodes in the order f
Reordered(episodes, f) == [i \in 1..Len(episodes) |-> episodes[f[i]]]

PeopleInit ==
  /\ arg \in { [episodes |-> [i \in 1..NumEpisodes |-> PeopleEpisode(i, tags[i])], order |-> f] :
                 tags \in [1..NumEpisodes -> PersonTags], f \in EpisodeOrders }
  /\ ret = <<>>
  /\ response = OkResponse(Undef)
  /\ parseResult = <<>>
  /\ wrappedResult = <<>>
  /\ clock = 0
  /\ CacheStart
  /\ PlayerStart

\* GET /api/podcast/people on the feed and on the feed with its episodes
\* reordered
AggregatePeople ==
  /\ ret = <<>>
  /\ ret' = <<[inOrder |-> aggregatePeople(arg.episodes),
               reordered |-> aggregatePeople(Reordered(arg.episodes, arg.order))]>>
  /\ UNCHANGED <<response, parseResult, wrappedResult, clock, arg>>
  /\ UNCHANGED <<cacheVars, playerVars>>

PeopleNext == AggregatePeople

SpecPeople == PeopleInit /\ [][PeopleNext]_vars

\* the slugs of a Person list
SlugsOf(people) == { people[i].slug : i \in 1..Len(people) }

\* the Person of the list with that slug
PersonWithSlug(people, slug) ==
  people[CHOOSE i \in 1..Len(people) : people[i].slug = slug]

\* the episodeSlugs of a Person as a set
EpisodeSlugSet(person) == { person.episodeSlugs[k] : k \in 1..Len(person.episodeSlugs) }

OptionalFields == {"role", "group", "img", "href"}

\* the non-empty values the person tags of the feed carry for the field of
\* the person with that slug
Offered(slug, field) ==
  LET tagged == UNION { { PersonsOfEpisode(arg.episodes[i])[k] :
                            k \in 1..Len(PersonsOfEpisode(arg.episodes[i])) } :
                        i \in 1..NumEpisodes }
  IN { p[field] : p \in { q \in tagged : /\ Truthy(q.name)
                                         /\ Str(personSlug(q.name.s)) = slug
                                         /\ Truthy(q[field]) } }

LookupPerson(found, episodeSlug, p, slug) ==
  IF ~Truthy(p.name) THEN found
  ELSE IF Str(personSlug(p.name.s)) # slug THEN found
  ELSE LET person == IF found.person = <<>>
                     THEN [slug |-> Str(personSlug(p.name.s)), name |-> p.name, role |-> p.role,
                           group |-> p.group, img |-> p.img, href |-> p.href,
                           episodeSlugs |-> <<>>]
                     ELSE found.person[1]
       IN [person |-> <<[slug |-> person.slug,
                         name |-> person.name,
                         role |-> FillField(person.role, p.role),
                         group |-> FillField(person.group, p.group),
                         img |-> FillField(person.img, p.img),
                         href |-> FillField(person.href, p.href),
                         episodeSlugs |-> person.episodeSlugs]>>,
           episodeSlugsSet |-> PushUnique(found.episodeSlugsSet, episodeSlug)]

RECURSIVE LookupPersons(_, _, _, _)
LookupPersons(found, episodeSlug, persons, slug) ==
  IF persons = <<>> THEN found
  ELSE LookupPersons(LookupPerson(found, episodeSlug, Head(persons), slug),
                     episodeSlug, Tail(persons), slug)

RECURSIVE LookupEpisodes(_, _, _)
LookupEpisodes(found, episodes, slug) ==
  IF episodes = <<>> THEN found
  ELSE LookupEpisodes(LookupPersons(found, Head(episodes).slug, PersonsOfEpisode(Head(episodes)), slug),
                      Tail(episodes), slug)

\* nothing found yet
NotFoundYet == [person |-> <<>>, episodeSlugsSet |-> <<>>]

\* LookupAnswer that leaves the person's episodeSlugs as created, empty
LookupAnswerNoSlugs(found, episodes) ==
  IF found.person = <<>> THEN [statusCode |-> 404, person |-> <<>>, episodes |-> <<>>]
  ELSE [statusCode |-> 200, person |-> found.person, episodes |-> <<>>]

\* what the handler answers after the loop: 404, or the person with the
\* collected episode slugs and the slugs of the summaries of those episodes
LookupAnswer(found, episodes) ==
  IF found.person = <<>> THEN [statusCode |-> 404, person |-> <<>>, episodes |-> <<>>]
  ELSE [statusCode |-> 200,
        person |-> <<[found.person[1] EXCEPT !.episodeSlugs = found.episodeSlugsSet]>>,
        episodes |-> LET kept == SelectSeq(episodes,
                                   LAMBDA ep : \E k \in 1..Len(found.episodeSlugsSet) :
                                                 found.episodeSlugsSet[k] = ep.slug)
                     IN [i \in 1..Len(kept) |-> kept[i].slug]]

\* the handler on the cached feed's episodes and the slug route parameter
findPerson(episodes, slug) ==
  IF ~Truthy(slug) THEN [statusCode |-> 400, person |-> <<>>, episodes |-> <<>>]
  ELSE LookupAnswer(LookupEpisodes(NotFoundYet, episodes, slug), episodes)

(***************************************************************************)
(* The two person handlers, one loop iteration at a time.                  *)
(***************************************************************************)
\* podcast:person values: none, one tag, the same person twice in one item
\* with different attributes, two persons one of them without attributes
StepPersonTags ==
  { Undef,
    Obj("#text" :> Str(<<"J", "o">>) @@ "@_role" :> Str(<<"h", "o", "s", "t">>)),
    Arr(<<Obj("#text" :> Str(<<"J", "o">>) @@ "@_role" :> Str(<<"g", "u", "e", "s", "t">>)
            @@ "@_img" :> Str(<<"i">>)),
          Obj("#text" :> Str(<<"J", "o">>) @@ "@_role" :> Str(<<"h", "o", "s", "t">>)
            @@ "@_href" :> Str(<<"h">>))>>),
    Arr(<<Obj("#text" :> Str(<<"A", "l">>)), Obj("#text" :> Str(<<"J", "o">>))>>) }

\* the i-th episode; episodes two apart have the same title and so the same
\* slug
StepEpisode(i, tag) ==
  [slug |-> Str(<<"e">> \o NumToStr(1 + (i % 2))),
   podcast2 |-> parsePodcast2Tags(Obj("podcast:person" :> tag))]

\* the slug route parameter
RequestedSlugs == { Str(<<"j", "o">>), Str(<<"a", "l">>) }

\* the person tags in the order the two nested loops visit them
RECURSIVE Occurrences(_)
Occurrences(episodes) ==
  IF episodes = <<>> THEN <<>>
  ELSE [k \in 1..Len(PersonsOfEpisode(Head(episodes))) |->
          [episodeSlug |-> Head(episodes).slug, p |-> PersonsOfEpisode(Head(episodes))[k]]]
       \o Occurrences(Tail(episodes))

PersonStepsInit ==
  /\ arg \in { [episodes |-> [i \in 1..NumEpisodes |-> StepEpisode(i, tags[i])], slug |-> sl] :
                 tags \in [1..NumEpisodes -> StepPersonTags], sl \in RequestedSlugs }
  /\ ret = <<[list |-> [at |-> 1, people |-> <<>>, result |-> <<>>],
              lookup |-> [at |-> 1, found |-> NotFoundYet, result |-> <<>>]]>>
  /\ response = OkResponse(Undef)
  /\ parseResult = <<>>
  /\ wrappedResult = <<>>
  /\ clock = 0
  /\ CacheStart
  /\ PlayerStart

\* one iteration of for (const p of persons) in people.get
ListStep ==
  /\ ret[1].list.result = <<>>
  /\ ret[1].list.at <= Len(Occurrences(arg.episodes))
  /\ LET occ == Occurrences(arg.episodes)[ret[1].list.at]
     IN ret' = <<[ret[1] EXCEPT !.list.people = AddPerson(@, occ.episodeSlug, occ.p),
                                !.list.at = @ + 1]>>
  /\ UNCHANGED <<response, parseResult, wrappedResult, clock, arg>>
  /\ UNCHANGED <<cacheVars, playerVars>>

\* the sort and return of people.get
ListReturn ==
  /\ ret[1].list.result = <<>>
  /\ ret[1].list.at > Len(Occurrences(arg.episodes))
  /\ ret' = <<[ret[1] EXCEPT !.list.result = <<SortPeople(ret[1].list.people)>>]>>
  /\ UNCHANGED <<response, parseResult, wrappedResult, clock, arg>>
  /\ UNCHANGED <<cacheVars, playerVars>>

\* one iteration of for (const p of persons) in people/[slug].get
LookupStep ==
  /\ ret[1].lookup.result = <<>>
  /\ ret[1].lookup.at <= Len(Occurrences(arg.episodes))
  /\ LET occ == Occurrences(arg.episodes)[ret[1].lookup.at]
     IN ret' = <<[ret[1] EXCEPT !.lookup.found = LookupPerson(@, occ.episodeSlug, occ.p, arg.slug),
                                !.lookup.at = @ + 1]>>
  /\ UNCHANGED <<response, parseResult, wrappedResult, clock, arg>>
  /\ UNCHANGED <<cacheVars, playerVars>>

\* the 404 or the person of people/[slug].get
LookupReturn ==
  /\ ret[1].lookup.result = <<>>
  /\ ret[1].lookup.at > Len(Occurrences(arg.episodes))
  /\ ret' = <<[ret[1] EXCEPT !.lookup.result = <<LookupAnswer(ret[1].lookup.found, arg.episodes)>>]>>
  /\ UNCHANGED <<response, parseResult, wrappedResult, clock, arg>>
  /\ UNCHANGED <<cacheVars, playerVars>>

PersonStepsNext == ListStep \/ ListReturn \/ LookupStep \/ LookupReturn

SpecPersonSteps == PersonStepsInit /\ [][PersonStepsNext]_vars

\* the iterations add up to the handlers
StepsAgreeWithHandlers ==
  /\ ret[1].list.result # <<>> => ret[1].list.result[1] = aggregatePeople(arg.episodes)
  /\ ret[1].lookup.result # <<>> => ret[1].lookup.result[1] = findPerson(arg.episodes, arg.slug)

\* the field of a record after a step is the one before, or was unset before
\* and is set after
KeptOrFilled(before, after) ==
  \A f \in OptionalFields :
    after[f] # before[f] => (~Truthy(before[f]) /\ Truthy(after[f]))

\* C21: once role, img, href or group of an accumulating person record has a
\* non-empty value no later occurrence of the person changes it; an
\* occurrence changes only fields that were unset, in people.get and in
\* people/[slug].get.
C21_PopulatedFieldsKept ==
  [][ /\ \A s \in SlugsOf(ret[1].list.people) :
           /\ s \in SlugsOf(ret'[1].list.people)
           /\ KeptOrFilled(PersonWithSlug(ret[1].list.people, s),
                           PersonWithSlug(ret'[1].list.people, s))
      /\ ret[1].lookup.found.person # <<>> =>
           /\ ret'[1].lookup.found.person # <<>>
           /\ KeptOrFilled(ret[1].lookup.found.person[1], ret'[1].lookup.found.person[1])
    ]_vars

\* the occurrence the loop of that handler has just processed
LastOccurrence(handler) == Occurrences(arg.episodes)[ret[1][handler].at - 1]

\* C21 witness: both handlers hold jo with role host and have just processed
\* a later occurrence of jo that carries role guest.
C21_Witness ==
  /\ arg.slug = Str(<<"j", "o">>)
  /\ ret[1].list.at > 2 /\ ret[1].lookup.at > 2
  /\ LastOccurrence("list").p.role = Str(<<"g", "u", "e", "s", "t">>)
  /\ LastOccurrence("lookup").p.role = Str(<<"g", "u", "e", "s", "t">>)
  /\ PersonWithSlug(ret[1].list.people, Str(<<"j", "o">>)).role = Str(<<"h", "o", "s", "t">>)
  /\ ret[1].lookup.found.person[1].role = Str(<<"h", "o", "s", "t">>)

\* a list without two equal entries
NoDuplicates(list) == \A i, j \in 1..Len(list) : list[i] = list[j] => i = j

\* C22: every record of the aggregated person list, while it accumulates and
\* when it is returned, has an episodeSlugs list without duplicates.
C22_EpisodeSlugsUnique ==
  /\ \A i \in 1..Len(ret[1].list.people) : NoDuplicates(ret[1].list.people[i].episodeSlugs)
  /\ ret[1].list.result # <<>> =>
       \A i \in 1..Len(ret[1].list.result[1]) : NoDuplicates(ret[1].list.result[1][i].episodeSlugs)

\* C22 witness: jo is tagged twice in the first episode and again in another
\* episode with the same slug and in one with another slug; the returned
\* record lists the two slugs once each.
C22_Witness ==
  /\ ret[1].list.result # <<>>
  /\ Len(PersonsOfEpisode(arg.episodes[1])) = 2
  /\ \A k \in 1..2 : PersonsOfEpisode(arg.episodes[1])[k].name = Str(<<"J", "o">>)
  /\ \A i \in 2..3 : \E k \in 1..Len(PersonsOfEpisode(arg.episodes[i])) :
                       PersonsOfEpisode(arg.episodes[i])[k].name = Str(<<"J", "o">>)
  /\ Len(PersonWithSlug(ret[1].list.result[1], Str(<<"j", "o">>)).episodeSlugs) = 2

(***************************************************************************)
(* server/utils/feed-url.ts and the lookup routes: errors at the API.      *)
(***************************************************************************)
\* createError({ statusCode, statusMessage })
H3Error(statusCode, statusMessage) ==
  [statusCode |-> statusCode, statusMessage |-> statusMessage, body |-> <<>>]

\* handleFeedError(error): what it throws; error is an H3 error or an Error
\* known by the phrases of its message
handleFeedError(error) ==
  IF "statusCode" \in DOMAIN error THEN error
  ELSE IF "Failed to fetch feed" \in error.phrases THEN H3Error(502, "Feed unavailable")
  ELSE IF "Failed to parse RSS XML" \in error.phrases THEN H3Error(502, "Invalid feed format")
  ELSE IF "timeout" \in error.phrases THEN H3Error(504, "Feed timeout")
  ELSE H3Error(500, "Feed processing failed")

\* GET /api/podcast/episodes/:slug after `await getCachedPodcastFeed(feedUrl)`:
\* feed is the parsed feed, or the Error the await threw
episodeBySlug(feed, slug) ==
  IF ~Truthy(slug) THEN handleFeedError(H3Error(400, "Missing slug"))
  ELSE IF ~feed.ok THEN handleFeedError(feed)
  ELSE LET hits == SelectSeq(feed.episodes, LAMBDA ep : ep.slug = slug)
       IN IF hits = <<>> THEN handleFeedError(H3Error(404, "Episode not found"))
          ELSE [statusCode |-> 200, statusMessage |-> "OK", body |-> <<hits[1]>>]

\* GET /api/podcast/people/:slug after `await getCachedPodcastFeed(feedUrl)`
personBySlug(feed, slug) ==
  IF ~Truthy(slug) THEN handleFeedError(H3Error(400, "Missing slug"))
  ELSE IF ~feed.ok THEN handleFeedError(feed)
  ELSE LET found == findPerson(feed.episodes, slug)
       IN IF found.statusCode = 404 THEN handleFeedError(H3Error(404, "Person not found"))
          ELSE [statusCode |-> 200, statusMessage |-> "OK", body |-> <<found>>]

\* upstream answers: failures of the fetch, of the XML parser, a document
\* without channel, and feeds of zero to two items
ApiResponses ==
  { OkResponse(Obj([rss |-> Obj([channel |-> ChannelOf(i)])])) :
      i \in { Undef } \cup OtherItems \cup { Arr(<<i, j>>) : i \in OtherItems, j \in OtherItems } }
    \cup { OkResponse(Obj([rss |-> Obj("@_version" :> Num(2))])),
           OkResponse(Obj([html |-> Str(<<"x">>)])),
           [net |-> "ok", cause |-> {}, status |-> 200, wellFormed |-> FALSE, rss |-> Undef],
           [net |-> "ok", cause |-> {}, status |-> 404, wellFormed |-> TRUE, rss |-> Undef],
           [net |-> "ok", cause |-> {}, status |-> 500, wellFormed |-> TRUE, rss |-> Undef],
           [net |-> "error", cause |-> {}, status |-> 0, wellFormed |-> TRUE, rss |-> Undef],
           [net |-> "error", cause |-> {"timeout"}, status |-> 0, wellFormed |-> TRUE, rss |-> Undef] }

\* the slug route parameter: missing, an episode's, a person's, nobody's
ApiSlugs == { Str(<<>>), Str(<<"e", "p", "-", "2">>), Str(<<"j", "o">>), Str(<<"z", "z">>) }

ApiInit ==
  /\ response \in ApiResponses
  /\ arg \in [route : {"episodes", "people"}, slug : ApiSlugs]
  /\ ret = <<>>
  /\ parseResult = <<>>
  /\ wrappedResult = <<>>
  /\ clock = 0
  /\ CacheStart
  /\ PlayerStart

\* GET /api/podcast/episodes/:slug
GetEpisode ==
  /\ ret = <<>>
  /\ arg.route = "episodes"
  /\ \E feed \in { parsePodcastFeed(FeedUrlA, response, IsoOf(clock)) } :
       ret' = <<episodeBySlug(feed, arg.slug)>>
  /\ UNCHANGED <<response, parseResult, wrappedResult, clock, arg>>
  /\ UNCHANGED <<cacheVars, playerVars>>

\* GET /api/podcast/people/:slug
GetPerson ==
  /\ ret = <<>>
  /\ arg.route = "people"
  /\ \E feed \in { parsePodcastFeed(FeedUrlA, response, IsoOf(clock)) } :
       ret' = <<personBySlug(feed, arg.slug)>>
  /\ UNCHANGED <<response, parseResult, wrappedResult, clock, arg>>
  /\ UNCHANGED <<cacheVars, playerVars>>

ApiNext == GetEpisode \/ GetPerson

SpecApi == ApiInit /\ [][ApiNext]_vars

\* the upstream fetch failed: network, timeout or non-success status
FetchFailed == response.net = "error" \/ response.status \notin 200..299

\* the body is no XML or has no rss.channel
BadFormat ==
  /\ ~FetchFailed
  /\ ~response.wellFormed \/ ~Truthy(Get(Get(response.rss, "rss"), "channel"))

\* the feed is there and holds no record with the slug
NoRecord ==
  /\ ~FetchFailed /\ ~BadFormat
  /\ LET feed == parsePodcastFeed(FeedUrlA, response, IsoOf(clock))
     IN /\ feed.ok
        /\ arg.route = "episodes" => \A i \in 1..Len(feed.episodes) : feed.episodes[i].slug # arg.slug
        /\ arg.route = "people" => arg.slug \notin SlugsOf(aggregatePeople(feed.episodes))

\* C23 as stated: a failed fetch is answered "feed unavailable", an
\* unparseable body or a missing rss.channel "invalid feed format", and a
\* lookup that finds no record 404.
C23_Original ==
  (ret # <<>> /\ Truthy(arg.slug)) =>
    /\ FetchFailed => ret[1].statusMessage = "Feed unavailable"
    /\ BadFormat => ret[1].statusMessage = "Invalid feed format"
    /\ NoRecord => ret[1].statusCode = 404

(***************************************************************************)
(* app/composables/useAudioPlayer.ts: volume and mute.                     *)
(***************************************************************************)
\* Math.max(0, Math.min(1, level)); NaN stays NaN
ClampVolume(level) ==
  IF level.t = "nan" THEN NaN
  ELSE IF level.n < 0 THEN Num(0)
  ELSE IF level.n > FullVolume THEN Num(FullVolume)
  ELSE level

\* v > 0 and v === 0 on numbers; both are false of NaN
Positive(v) == v.t = "num" /\ v.n > 0
IsZero(v) == v.t = "num" /\ v.n = 0

\* howl.volume(v) when there is a Howl: Howler takes a volume within 0..1
\* and ignores any other argument
HowlVolume(hw, v) ==
  IF hw = <<>> \/ v.t # "num" THEN hw ELSE <<[hw[1] EXCEPT !.volume = v]>>

\* setVolume without the auto-mute at volume 0
setVolumeNoAutoMute(p, level) ==
  LET clampedVolume == ClampVolume(level)
  IN [state |-> [p.state EXCEPT !.volume = clampedVolume,
                                !.isMuted = IF Positive(clampedVolume) /\ @ THEN FALSE ELSE @],
      howl |-> HowlVolume(p.howl, clampedVolume)]

\* setVolume(level) on the pair p of state and howl
setVolume(p, level) ==
  LET clampedVolume == ClampVolume(level)
      unmuted == IF Positive(clampedVolume) /\ p.state.isMuted THEN FALSE ELSE p.state.isMuted
      muted == IF IsZero(clampedVolume) /\ ~unmuted THEN TRUE ELSE unmuted
  IN [state |-> [p.state EXCEPT !.volume = clampedVolume, !.isMuted = muted],
      howl |-> HowlVolume(p.howl, clampedVolume)]

\* toggleMute that restores the default volume, not the saved one
toggleMuteToDefault(p) ==
  IF p.state.isMuted
  THEN LET q == setVolume(p, Num(DefaultVolume))
       IN [q EXCEPT !.state.isMuted = FALSE]
  ELSE LET q == setVolume([p EXCEPT !.state.volumeBeforeMute = p.state.volume], Num(0))
       IN [q EXCEPT !.state.isMuted = TRUE]

\* toggleMute() on the pair p of state and howl
toggleMute(p) ==
  IF p.state.isMuted
  THEN LET volumeToRestore == IF Positive(p.state.volumeBeforeMute)
                              THEN p.state.volumeBeforeMute ELSE Num(DefaultVolume)
           q == setVolume(p, volumeToRestore)
       IN [q EXCEPT !.state.isMuted = FALSE]
  ELSE LET q == setVolume([p EXCEPT !.state.volumeBeforeMute = p.state.volume], Num(0))
       IN [q EXCEPT !.state.isMuted = TRUE]

\* the levels setVolume is called with, in tenths: below 0, 0, within the
\* range, 1, above 1, and NaN
VolumeLevels == { Num(-5), Num(0), Num(1), Num(5), Num(7), Num(FullVolume), Num(15), NaN }

\* how many of the latest calls ret remembers
MaxCallsKept == 2

\* the latest calls with one more
Remember(calls, call) ==
  IF Len(calls) < MaxCallsKept THEN Append(calls, call) ELSE Append(Tail(calls), call)

\* the player as constructed; ret keeps the latest calls, each with the
\* state it was made in
VolumeInit ==
  /\ CacheStart
  /\ PlayerStart
  /\ clock = 0
  /\ response = OkResponse(Undef)
  /\ parseResult = <<>>
  /\ wrappedResult = <<>>
  /\ NoCall

\* setVolume(level)
SetVolume(level) ==
  /\ state' = setVolume([state |-> state, howl |-> howl], level).state
  /\ howl' = setVolume([state |-> state, howl |-> howl], level).howl
  /\ ret' = Remember(ret, [op |-> "setVolume", before |-> state])
  /\ UNCHANGED <<response, parseResult, wrappedResult, clock, arg, progressStore, query>>
  /\ UNCHANGED cacheVars

\* toggleMute()
ToggleMute ==
  /\ state' = toggleMute([state |-> state, howl |-> howl]).state
  /\ howl' = toggleMute([state |-> state, howl |-> howl]).howl
  /\ ret' = Remember(ret, [op |-> "toggleMute", before |-> state])
  /\ UNCHANGED <<response, parseResult, wrappedResult, clock, arg, progressStore, query>>
  /\ UNCHANGED cacheVars

VolumeNext == (\E level \in VolumeLevels : SetVolume(level)) \/ ToggleMute

SpecVolume == VolumeInit /\ [][VolumeNext]_vars

\* the last two calls were toggleMute
ToggledTwice ==
  /\ Len(ret) >= 2
  /\ ret[Len(ret) - 1].op = "toggleMute"
  /\ ret[Len(ret)].op = "toggleMute"

\* C24: toggleMute called twice from an unmuted state with volume v > 0
\* first sets the volume to 0 with isMuted true, then restores the volume to
\* exactly v with isMuted false.
C24_ToggleMuteTwiceRestores ==
  (/\ ToggledTwice
   /\ ~ret[Len(ret) - 1].before.isMuted
   /\ Positive(ret[Len(ret) - 1].before.volume))
  => /\ ret[Len(ret)].before.volume = Num(0)
     /\ ret[Len(ret)].before.isMuted
     /\ state.volume = ret[Len(ret) - 1].before.volume
     /\ ~state.isMuted

\* C24 witness: two toggleMute calls made at volume 0.7 have gone through
\* volume 0 and restored 0.7.
C24_Witness ==
  /\ ToggledTwice
  /\ ~ret[Len(ret) - 1].before.isMuted
  /\ ret[Len(ret) - 1].before.volume = Num(7)
  /\ ret[Len(ret)].before.volume = Num(0)
  /\ state.volume = Num(7)

CompletionThreshold == 60

\* getProgress(episodeGuid): <<>> for null
getProgress(store, episodeGuid) ==
  IF episodeGuid \in DOMAIN store THEN store[episodeGuid] ELSE <<>>

\* isStarted(episodeGuid)
isStarted(store, episodeGuid) ==
  LET progress == getProgress(store, episodeGuid)
  IN progress # <<>> /\ progress[1].position > 0

\* isCompleted with a strict comparison
isCompletedStrict(store, episodeGuid) ==
  LET progress == getProgress(store, episodeGuid)
  IN IF progress = <<>> THEN FALSE
     ELSE progress[1].duration - progress[1].position < CompletionThreshold

\* isCompleted(episodeGuid)
isCompleted(store, episodeGuid) ==
  LET progress == getProgress(store, episodeGuid)
  IN IF progress = <<>> THEN FALSE
     ELSE progress[1].duration - progress[1].position <= CompletionThreshold

\* saveProgress(episodeGuid, position, duration) at time now
saveProgress(store, episodeGuid, position, duration, now) ==
  [store EXCEPT ![episodeGuid] = <<[position |-> position, duration |-> duration,
                                    lastUpdated |-> now]>>]

\* Number(s) of a string of digits: 0 for the empty string, NaN for anything
\* that is not a number
NumberOf(cs) ==
  IF Trim(cs) = <<>> THEN Num(0)
  ELSE IF \A i \in 1..Len(Trim(cs)) : IsDigit(Trim(cs)[i]) THEN Num(DigitsValue(Trim(cs), 0))
  ELSE NaN

\* parseTimestamp(timestamp) of app/utils/timestamps.ts
parseTimestamp(timestamp) ==
  LET strs == Split(timestamp, ":")
      parts == [i \in 1..Len(strs) |-> NumberOf(strs[i])]
  IN CASE Len(parts) = 3 -> MulAdd(MulAdd(parts[1], 60, parts[2]), 60, parts[3])
       [] Len(parts) = 2 -> MulAdd(parts[1], 60, parts[2])
       [] Len(parts) = 1 -> parts[1]
       [] OTHER -> Num(0)

\* what howl.duration() answers once the metadata of the episode's audio is
\* loaded; 0 when the stream does not tell
AudioDuration(guid) == IF guid = "g1" THEN 200 ELSE 0

\* the episode objects handed to the player
PlayableEpisode(guid) == [guid |-> guid, duration |-> IF guid = "g1" THEN 190 ELSE 300]

\* new Howl({...}): restores says that its onload is the one of play()
NewHowl(guid, restores, volume) ==
  <<[guid |-> guid, restores |-> restores, loaded |-> FALSE, wantPlay |-> FALSE,
     playing |-> FALSE, pos |-> 0, volume |-> volume]>>

\* the position the onload handler of play() seeks to, <<>> when it does
\* not seek, without the test of the remaining time
RestoreTargetAlways(t, saved) ==
  IF t # <<>> /\ t[1] # <<>> /\ Positive(parseTimestamp(t[1])) THEN <<parseTimestamp(t[1]).n>>
  ELSE IF saved # <<>> /\ saved[1].position > 0 THEN <<saved[1].position>>
  ELSE <<>>

\* the position the onload handler of play() seeks to, <<>> when it does
\* not seek: the ?t= timestamp when it is positive, else the saved position
\* when more than 60 seconds remain
RestoreTarget(t, saved) ==
  IF t # <<>> /\ t[1] # <<>> /\ Positive(parseTimestamp(t[1])) THEN <<parseTimestamp(t[1]).n>>
  ELSE IF saved # <<>> /\ saved[1].position > 0
          /\ saved[1].duration - saved[1].position > 60
       THEN <<saved[1].position>>
  ELSE <<>>

\* positions and durations saveProgress is called with
SavedPositions == {0, 100, 139, 140, 200, 250}
SavedDurations == {0, 200}

\* positions saved for the first episode while the player is exercised, all
\* with duration 200
ResumePositions == {0, 100, 140}

\* positions a playing Howl is found at by the interval, and sought to
PlayPositions == {150}

\* ?t= of the route: absent, 1:40, not a time
QueryTimestamps == { <<>>, << <<"1", ":", "4", "0">> >>, << <<"x">> >> }

PlaybackInit ==
  /\ CacheStart
  /\ PlayerStart
  /\ clock = 0
  /\ response = OkResponse(Undef)
  /\ parseResult = <<>>
  /\ wrappedResult = <<>>
  /\ NoCall

\* the route changes
Navigate(t) ==
  /\ query' = [t |-> t]
  /\ UNCHANGED <<response, parseResult, wrappedResult, clock, arg, ret, state, howl, progressStore>>
  /\ UNCHANGED cacheVars

\* saveProgress(guid, position, duration)
SaveProgress(guid, position, duration) ==
  /\ progressStore' = saveProgress(progressStore, guid, position, duration, clock)
  /\ UNCHANGED <<response, parseResult, wrappedResult, clock, arg, ret, state, howl, query>>
  /\ UNCHANGED cacheVars

\* clearProgress(guid)
ClearProgress(guid) ==
  /\ progressStore[guid] # <<>>
  /\ progressStore' = [progressStore EXCEPT ![guid] = <<>>]
  /\ UNCHANGED <<response, parseResult, wrappedResult, clock, arg, ret, state, howl, query>>
  /\ UNCHANGED cacheVars

\* play(episode): resume the Howl of the same episode once it has a
\* position, else replace the Howl and start it
Play(guid) ==
  /\ IF /\ howl # <<>>
        /\ state.currentEpisode # <<>> /\ state.currentEpisode[1].guid = guid
        /\ state.currentTime > 0
     THEN /\ howl' = <<[howl[1] EXCEPT !.wantPlay = ~howl[1].playing]>>
          /\ state' = [state EXCEPT !.isPlaying = TRUE, !.isLoading = FALSE]
     ELSE /\ howl' = <<[NewHowl(guid, TRUE, state.volume)[1] EXCEPT !.wantPlay = TRUE]>>
          /\ state' = [state EXCEPT !.isLoading = TRUE,
                                    !.currentEpisode = <<PlayableEpisode(guid)>>]
  /\ UNCHANGED <<response, parseResult, wrappedResult, clock, arg, ret, progressStore, query>>
  /\ UNCHANGED cacheVars

\* preload(episode)
Preload(guid) ==
  /\ ~(state.currentEpisode # <<>> /\ state.currentEpisode[1].guid = guid)
  /\ howl' = NewHowl(guid, FALSE, state.volume)
  /\ state' = [state EXCEPT !.currentEpisode = <<PlayableEpisode(guid)>>,
                            !.isPlaying = FALSE, !.currentTime = 0,
                            !.duration = PlayableEpisode(guid).duration,
                            !.isLoading = FALSE]
  /\ UNCHANGED <<response, parseResult, wrappedResult, clock, arg, ret, progressStore, query>>
  /\ UNCHANGED cacheVars

\* the Howl has loaded its metadata: onload.  ret records for which episode
\* the handler of play() ran and where it sought
OnLoad ==
  /\ howl # <<>> /\ ~howl[1].loaded /\ howl[1].wantPlay
  /\ LET guid == howl[1].guid
         saved == getProgress(progressStore, guid)
         target == IF howl[1].restores THEN RestoreTarget(query.t, saved) ELSE <<>>
     IN /\ howl' = <<[howl[1] EXCEPT !.loaded = TRUE,
                                     !.pos = IF target # <<>> THEN target[1] ELSE @]>>
        /\ state' = [state EXCEPT
                       !.duration = IF AudioDuration(guid) # 0 THEN AudioDuration(guid)
                                    ELSE IF howl[1].restores THEN 0
                                    ELSE state.currentEpisode[1].duration,
                       !.isLoading = IF howl[1].restores THEN FALSE ELSE @,
                       !.currentTime = IF target # <<>> THEN target[1] ELSE @]
        /\ ret' = IF howl[1].restores
                  THEN <<[guid |-> guid, sought |-> target]>>
                  ELSE ret
  /\ UNCHANGED <<response, parseResult, wrappedResult, clock, arg, progressStore, query>>
  /\ UNCHANGED cacheVars

\* the loaded Howl starts playing: onplay (only the Howl of play() has the
\* handler)
OnPlay ==
  /\ howl # <<>> /\ howl[1].loaded /\ howl[1].wantPlay
  /\ howl' = <<[howl[1] EXCEPT !.wantPlay = FALSE, !.playing = TRUE]>>
  /\ state' = IF howl[1].restores THEN [state EXCEPT !.isPlaying = TRUE] ELSE state
  /\ UNCHANGED <<response, parseResult, wrappedResult, clock, arg, ret, progressStore, query>>
  /\ UNCHANGED cacheVars

\* the 250 ms interval reads the position of the playing Howl
Tick250(pos) ==
  /\ howl # <<>> /\ howl[1].playing /\ state.isPlaying
  /\ pos > howl[1].pos
  /\ howl' = <<[howl[1] EXCEPT !.pos = pos]>>
  /\ state' = [state EXCEPT !.currentTime = pos]
  /\ UNCHANGED <<response, parseResult, wrappedResult, clock, arg, ret, progressStore, query>>
  /\ UNCHANGED cacheVars

\* pause(), and the watcher of isPlaying in useListeningProgress, which
\* saves the position when playback stops
Pause ==
  /\ howl # <<>>
  /\ howl' = <<[howl[1] EXCEPT !.wantPlay = FALSE, !.playing = FALSE]>>
  /\ state' = [state EXCEPT !.isPlaying = FALSE]
  /\ progressStore' =
       IF state.isPlaying /\ state.currentEpisode # <<>> /\ state.currentTime > 0
       THEN saveProgress(progressStore, state.currentEpisode[1].guid,
                         state.currentTime, state.duration, clock)
       ELSE progressStore
  /\ UNCHANGED <<response, parseResult, wrappedResult, clock, arg, ret, query>>
  /\ UNCHANGED cacheVars

\* the audio reaches its end: onend
OnEnd ==
  /\ howl # <<>> /\ howl[1].playing /\ howl[1].restores
  /\ howl' = <<[howl[1] EXCEPT !.playing = FALSE, !.pos = 0]>>
  /\ state' = [state EXCEPT !.isPlaying = FALSE, !.currentTime = 0]
  /\ UNCHANGED <<response, parseResult, wrappedResult, clock, arg, ret, progressStore, query>>
  /\ UNCHANGED cacheVars

\* seek(seconds)
Seek(seconds) ==
  /\ howl # <<>>
  /\ howl' = <<[howl[1] EXCEPT !.pos = seconds]>>
  /\ state' = [state EXCEPT !.currentTime = seconds]
  /\ UNCHANGED <<response, parseResult, wrappedResult, clock, arg, ret, progressStore, query>>
  /\ UNCHANGED cacheVars

PlaybackNext ==
  \/ \E t \in QueryTimestamps : Navigate(t)
  \/ \E p \in ResumePositions : SaveProgress("g1", p, 200)
  \/ ClearProgress("g1")
  \/ \E g \in EpisodeGuids : Play(g)
  \/ \E g \in EpisodeGuids : Preload(g)
  \/ OnLoad
  \/ OnPlay
  \/ \E p \in PlayPositions : Tick250(p)
  \/ Pause
  \/ OnEnd
  \/ \E p \in PlayPositions : Seek(p)

SpecPlayback == PlaybackInit /\ [][PlaybackNext]_vars

\* the listening progress alone
ProgressNext ==
  \/ \E g \in EpisodeGuids : \E p \in SavedPositions : \E d \in SavedDurations : SaveProgress(g, p, d)
  \/ \E g \in EpisodeGuids : ClearProgress(g)

SpecProgress == PlaybackInit /\ [][ProgressNext]_vars

\* C25: isCompleted(guid) is true exactly when progress is saved for guid
\* and its duration minus its position is at most 60 seconds; it is false
\* for an episode without saved progress and for an unknown guid.
C25_CompletedWithinThreshold ==
  /\ \A g \in EpisodeGuids :
       isCompleted(progressStore, g)
         <=> (progressStore[g] # <<>>
              /\ progressStore[g][1].duration - progressStore[g][1].position <= 60)
  /\ ~isCompleted(progressStore, "unknown")

\* C25 witness: the first episode is saved with exactly 60 seconds left and
\* is completed, the second has nothing saved and is not.
C25_Witness ==
  /\ progressStore["g1"] # <<>>
  /\ progressStore["g1"][1].position = 140 /\ progressStore["g1"][1].duration = 200
  /\ isCompleted(progressStore, "g1")
  /\ progressStore["g2"] = <<>>
  /\ ~isCompleted(progressStore, "g2")

\* this step is the onload of a Howl created by play()
OnLoadOfPlay ==
  /\ howl # <<>> /\ ~howl[1].loaded /\ howl[1].restores
  /\ howl' # <<>> /\ howl'[1].loaded

\* C30: when an episode newly loaded by play() has no ?t= timestamp, the
\* player seeks to the saved position exactly when the saved progress has
\* position > 0 and is not completed under the listening-progress rule; an
\* episode for which isCompleted is true is never resumed.
C30_ResumeUnlessCompleted ==
  [][ (OnLoadOfPlay /\ query.t = <<>>) =>
        LET guid == howl[1].guid
            saved == progressStore[guid]
        IN /\ ret'[1].guid = guid
           /\ ret'[1].sought # <<>>
                <=> (saved # <<>> /\ saved[1].position > 0 /\ ~isCompleted(progressStore, guid))
           /\ ret'[1].sought # <<>> =>
                /\ ret'[1].sought[1] = saved[1].position
                /\ state'.currentTime = saved[1].position
                /\ howl'[1].pos = saved[1].position
           /\ isCompleted(progressStore, guid) => (ret'[1].sought = <<>> /\ howl'[1].pos = howl[1].pos)
    ]_vars

\* C30 witness: the first episode, saved at 100 of 200 seconds, has just
\* been loaded without ?t= and the player stands at 100, about to play.
C30_Witness ==
  /\ ret = <<[guid |-> "g1", sought |-> <<100>>]>>
  /\ query.t = <<>>
  /\ progressStore["g1"] # <<>> /\ progressStore["g1"][1].position = 100
  /\ howl # <<>> /\ howl[1].guid = "g1" /\ howl[1].loaded /\ howl[1].wantPlay
  /\ howl[1].pos = 100 /\ state.currentTime = 100

(***************************************************************************)
(* app/utils/transcript-parser.ts: findActiveCueIndex.  Indices are those  *)
(* of the JavaScript array, from 0; cues[i + 1] is the cue of index i.     *)
(***************************************************************************)
\* currentTime >= cue.startTime && currentTime < cue.endTime
CueActive(cue, currentTime) == currentTime >= cue.startTime /\ currentTime < cue.endTime

\* the while loop: the index returned from inside it, or the result it
\* leaves with, and whether it returned
RECURSIVE CueSearch(_, _, _, _, _)
CueSearch(cues, currentTime, low, high, result) ==
  IF low > high THEN [returned |-> FALSE, index |-> result]
  ELSE LET mid == (low + high) \div 2
           cue == cues[mid + 1]
       IN IF CueActive(cue, currentTime) THEN [returned |-> TRUE, index |-> mid]
          ELSE IF currentTime >= cue.startTime
               THEN CueSearch(cues, currentTime, mid + 1, high, mid)
               ELSE CueSearch(cues, currentTime, low, mid - 1, result)

\* findActiveCueIndex that answers -1 whenever the cue it ends on is not
\* active
findActiveCueIndexOrNone(cues, currentTime) ==
  LET found == CueSearch(cues, currentTime, 0, Len(cues) - 1, -1)
  IN IF found.index # -1 /\ CueActive(cues[found.index + 1], currentTime)
     THEN found.index ELSE -1

\* findActiveCueIndex(cues, currentTime)
findActiveCueIndex(cues, currentTime) ==
  LET found == CueSearch(cues, currentTime, 0, Len(cues) - 1, -1)
  IN IF found.returned THEN found.index
     ELSE IF found.index # -1 /\ CueActive(cues[found.index + 1], currentTime)
          THEN found.index
     ELSE found.index

MaxCues == 3

\* start and end times of cues, and the times asked for
CueTimes == {0, 5, 10, 15}
AskedTimes == {0, 3, 5, 7, 12, 20}

CueSet == { [startTime |-> a, endTime |-> b] : a \in CueTimes, b \in CueTimes }
            \ { c \in [startTime : CueTimes, endTime : CueTimes] : c.startTime >= c.endTime }

\* cue lists of up to MaxCues cues, in any order, overlapping or not
CueLists == UNION { [1..n -> CueSet] : n \in 0..MaxCues }

CuesInit ==
  /\ arg \in [cues : CueLists, currentTime : AskedTimes]
  /\ ret = <<>>
  /\ response = OkResponse(Undef)
  /\ parseResult = <<>>
  /\ wrappedResult = <<>>
  /\ clock = 0
  /\ CacheStart
  /\ PlayerStart

\* findActiveCueIndex(arg.cues, arg.currentTime)
FindActiveCue ==
  /\ ret = <<>>
  /\ ret' = <<findActiveCueIndex(arg.cues, arg.currentTime)>>
  /\ UNCHANGED <<response, parseResult, wrappedResult, clock, arg>>
  /\ UNCHANGED <<cacheVars, playerVars>>

CuesNext == FindActiveCue

SpecCues == CuesInit /\ [][CuesNext]_vars

\* the indices of the cues active at the asked time
ActiveCues == { i \in 0..(Len(arg.cues) - 1) : CueActive(arg.cues[i + 1], arg.currentTime) }

\* the indices of the cues that have started by the asked time
StartedCues == { i \in 0..(Len(arg.cues) - 1) : arg.cues[i + 1].startTime <= arg.currentTime }

\* the cues are in time order and do not overlap
CuesInOrder ==
  \A i, j \in 1..Len(arg.cues) : i < j => arg.cues[i].endTime <= arg.cues[j].startTime

C28_LookupAgreesWithList ==
  (ret[1].list.result # <<>> /\ ret[1].lookup.result # <<>> /\ Truthy(arg.slug)) =>
    LET list == ret[1].list.result[1]
        answer == ret[1].lookup.result[1]
    IN /\ answer.statusCode = 404 <=> arg.slug \notin SlugsOf(list)
       /\ arg.slug \in SlugsOf(list) =>
            /\ answer.statusCode = 200
            /\ answer.person[1].slug = arg.slug
            /\ answer.person[1].name = PersonWithSlug(list, arg.slug).name
            /\ \A f \in OptionalFields : answer.person[1][f] = PersonWithSlug(list, arg.slug)[f]
            /\ EpisodeSlugSet(answer.person[1]) = EpisodeSlugSet(PersonWithSlug(list, arg.slug))

\* C28 witness: jo, tagged in two episodes with different slugs and with two
\* roles, was listed and looked up.
C28_Witness ==
  /\ ret[1].list.result # <<>> /\ ret[1].lookup.result # <<>>
  /\ arg.slug = Str(<<"j", "o">>)
  /\ ret[1].lookup.result[1].statusCode = 200
  /\ Len(ret[1].lookup.result[1].person[1].episodeSlugs) = 2
  /\ Cardinality({ Occurrences(arg.episodes)[k].p.role : k \in 1..Len(Occurrences(arg.episodes)) }
                   \ {Undef}) = 2

(***************************************************************************)
(* server/api/podcast/episodes.get.ts: the paginated episode list.  The    *)
(* limit may have a fraction; limits are counted in halves, page numbers   *)
(* are whole.                                                              *)
(***************************************************************************)
DefaultLimit == 12
MaxLimit == 100

\* Math.max(1, Number(query.page) || 1)
EffectivePage(page) ==
  IF page.t = "nan" \/ page.n = 0 THEN 1
  ELSE IF page.n < 1 THEN 1 ELSE page.n

\* Math.max(1, Math.min(100, Number(query.limit) || 12)), in halves
EffectiveLimit(limit) ==
  IF limit.t = "nan" \/ limit.n = 0 THEN 2 * DefaultLimit
  ELSE IF limit.n > 2 * MaxLimit THEN 2 * MaxLimit
  ELSE IF limit.n < 2 THEN 2
  ELSE limit.n

\* start counted from the page itself, one page too far
PageStartAfter(page, limit) == page * limit

\* (page - 1) * limit, in halves
PageStart(page, limit) == (page - 1) * limit

\* array.slice(start, end) with start and end in halves: both are truncated
\* to whole indices and the end is cut at the length
SliceHalves(list, start, end) ==
  SubSeq(list, (start \div 2) + 1, IF end \div 2 > Len(list) THEN Len(list) ELSE end \div 2)

\* the summary of an episode: the heavy fields are stripped
SummaryOf(episode) == [slug |-> episode.slug, title |-> episode.title]

\* the handler's answer for the query's page and limit
episodesPage(episodes, page, limit) ==
  LET p == EffectivePage(page)
      l == EffectiveLimit(limit)
      total == Len(episodes)
      start == PageStart(p, l)
      slice == SliceHalves(episodes, start, start + l)
  IN [episodes |-> [i \in 1..Len(slice) |-> SummaryOf(slice[i])],
      total |-> total,
      page |-> p,
      totalPages |-> (2 * total + l - 1) \div l]

MaxEpisodes == 5
MaxPage == 6

\* the feed's episodes
ListedEpisode(i) ==
  [slug |-> Str(<<"e">> \o NumToStr(i)), title |-> Str(<<"E">> \o NumToStr(i)),
   htmlContent |-> Str(<<"<", "p", ">">>)]

\* Number(query.limit) in halves: not a number, 0, -3, 0.5, 1, 1.5, 2, 2.5,
\* 3, 250
RequestedLimits ==
  { NaN, Num(0), Num(-6), Num(1), Num(2), Num(3), Num(4), Num(5), Num(6), Num(500) }

\* Number(query.page): not a number, below 1, and the pages up to MaxPage
RequestedPages == { NaN, Num(-1), Num(0) } \cup { Num(k) : k \in 1..MaxPage }

\* ret collects the answers to the requests for page 1, 2, ... of one feed
\* with one limit
PagesInit ==
  /\ arg \in [episodes : { [i \in 1..n |-> ListedEpisode(i)] : n \in 0..MaxEpisodes },
              limit : RequestedLimits]
  /\ ret = <<>>
  /\ response = OkResponse(Undef)
  /\ parseResult = <<>>
  /\ wrappedResult = <<>>
  /\ clock = 0
  /\ CacheStart
  /\ PlayerStart

\* GET /api/podcast/episodes?page=..&limit=.. for the page after the last
\* one asked
RequestPage(page) ==
  /\ EffectivePage(page) = Len(ret) + 1
  /\ ret' = Append(ret, [asked |-> page, answer |-> episodesPage(arg.episodes, page, arg.limit)])
  /\ UNCHANGED <<response, parseResult, wrappedResult, clock, arg>>
  /\ UNCHANGED <<cacheVars, playerVars>>

PagesNext == \E page \in RequestedPages : RequestPage(page)

SpecPages == PagesInit /\ [][PagesNext]_vars

\* the episodes of the first k answers, one after the other
RECURSIVE PagesJoined(_)
PagesJoined(k) == IF k = 0 THEN <<>> ELSE PagesJoined(k - 1) \o ret[k].answer.episodes

\* the summaries of the whole feed in feed order
AllSummaries == [i \in 1..Len(arg.episodes) |-> SummaryOf(arg.episodes[i])]

\* C29: with the limit clamped to [1, 100] and the page to at least 1, the
\* pages 1..totalPages are consecutive slices without overlap: the pages
\* asked so far joined are a prefix of the episode list, and once page
\* totalPages is answered they are the whole list, each episode once and in
\* feed order; no page up to totalPages is empty.
C29_PagesPartitionTheList ==
  /\ \A k \in 1..Len(ret) :
       /\ ret[k].answer.page = k
       /\ ret[k].answer.total = Len(arg.episodes)
       /\ ret[k].answer.totalPages = ret[1].answer.totalPages
       /\ Len(PagesJoined(k)) <= Len(arg.episodes)
       /\ PagesJoined(k) = SubSeq(AllSummaries, 1, Len(PagesJoined(k)))
       /\ k >= ret[1].answer.totalPages => PagesJoined(k) = AllSummaries
       /\ k <= ret[1].answer.totalPages => ret[k].answer.episodes # <<>>
  /\ Len(ret) >= 1 =>
       /\ EffectiveLimit(arg.limit) \in 2..(2 * MaxLimit)
       /\ ret[1].answer.totalPages * EffectiveLimit(arg.limit) >= 2 * Len(arg.episodes)

\* C29 witness: five episodes asked for in pages of two came as three pages
\* of two, two and one, the first asked for as page 0.
C29_Witness ==
  /\ Len(arg.episodes) = 5
  /\ arg.limit = Num(4)
  /\ Len(ret) = 3
  /\ ret[1].asked = Num(0)
  /\ ret[1].answer.totalPages = 3
  /\ Len(ret[1].answer.episodes) = 2 /\ Len(ret[2].answer.episodes) = 2
  /\ Len(ret[3].answer.episodes) = 1
  /\ ret[3].answer.episodes[1].slug = Str(<<"e", "5">>)

====
